---- MODULE Spec2Model ----
(***************************************************************************)
(* Model of the simulation-and-validation pipeline of the Polymarket       *)
(* copy-trading bot: MockWalletEngine, MockExecutor, PositionManager,      *)
(* RiskEngine, ExecutorService, MonitorService, TradeReplayRunner and the  *)
(* LiveExecutor safety guard.                                              *)
(*                                                                         *)
(* Units.  Prices are integers in mills (1/1000 of a dollar), quantities   *)
(* are whole shares, money is in mills.  Average prices and PnL, which the *)
(* code computes by floating-point division, are exact rationals           *)
(* [n |-> numerator, d |-> denominator]; d = 0 is NaN (0/0).  The sizing   *)
(* functions of RiskEngine, whose results are held against the limits,     *)
(* round each operation to the nearest floating-point number.              *)
(***************************************************************************)
EXTENDS Integers, Sequences, FiniteSets, TLC

VARIABLES
  \* MockWalletEngine
  initialBalance,   \* MockWalletEngine.initialBalance
  cashBalance,      \* MockWalletEngine.cashBalance
  positions,        \* MockWalletEngine.positions: key -> Position
  tradeHistory,     \* MockWalletEngine.tradeHistory
  walletCall,       \* the last buy/sell call on the wallet and what it returned
  \* configuration and LiveExecutor
  testMode,         \* ConfigManager.config.testMode.enabled
  hasChecked,       \* LiveExecutionGuard.hasChecked
  liveExecutors,    \* the LiveExecutor objects: "absent", "constructed", "initialized"
  liveSettlements,  \* times a LiveExecutor reached its settlement step
  liveCall,         \* the last call on LiveExecutor and how it ended
  \* configuration read by the pipeline
  riskCfg,          \* config.risk and the two enable flags
  sizing,           \* the last call of a RiskEngine sizing function and what it returned
  \* MonitorService
  monitoring,       \* MonitorService.isRunning
  \* PriceSimulator
  prices,           \* PriceSimulator.prices: key -> price
  \* InMemoryDatabaseManager and DatabaseFactory
  connected,        \* InMemoryDatabaseManager.connected
  currentAdapter,   \* DatabaseFactory.currentAdapter # null
  serviceDb,        \* [monitor, executor]: the service's cached database field # null
  trades,           \* InMemoryDatabaseManager.trades: the saved trade ids
  executionOrders,  \* InMemoryDatabaseManager.executionOrders: order id -> ExecutionOrder
  \* DatabaseManager (MongoDB), the store PositionManager imports
  mongoConnected,   \* DatabaseManager.db # null
  pmPositions,      \* the positions collection: key -> Position
  \* trades and the processTrade calls in flight
  tradeLog,         \* the trades detected so far; a trade's id is its index
  proc,             \* processTrade calls: position in the code and locals
  \* TradeReplayRunner
  loaded,           \* TradeReplayRunner.trades
  isReplaying,      \* TradeReplayRunner.isReplaying
  replay,           \* the replay() call: position in the code and locals
  fed,              \* ids of the trades feedTrade was called with by replay(), in call order
  \* two processes started from the same configuration, each with its own MockExecutor
  script,           \* the calls both processes make, in order
  runs,             \* per process: its PriceSimulator, its wallet, the calls made, the values returned
  \* ExecutorFactory
  factory           \* ExecutorFactory.instance, the executors created, the getExecutor calls

walletVars == <<initialBalance, cashBalance, positions, tradeHistory, walletCall>>
liveVars == <<hasChecked, liveExecutors, liveSettlements, liveCall>>
dbVars == <<connected, currentAdapter, serviceDb, trades, executionOrders>>
mongoVars == <<mongoConnected, pmPositions>>
replayVars == <<loaded, isReplaying, replay, fed>>
riskVars == <<riskCfg, sizing>>
pipeVars == <<riskVars, monitoring, prices, dbVars, mongoVars, tradeLog, proc>>
runVars == <<script, runs, factory>>
vars == <<walletVars, testMode, liveVars, pipeVars, replayVars, runVars>>

----------------------------------------------------------------------------
(* Bounds of the model *)

\* number of direct buy/sell calls explored on a stand-alone wallet
MaxCalls == 3
\* largest quantity of a direct buy/sell call
MaxQty == 2
\* number of LiveExecutor objects a caller tries to construct
MaxLive == 2
\* number of calls explored on LiveExecutor
MaxLiveCalls == 5

\* position keys "marketId:outcomeId"
Keys == {"m1:o1", "m2:o1"}
\* prices used for direct wallet calls (mills)
WalletPrices == {300, 500}
\* configured testMode.initialBalance values explored (mills)
InitialBalances == {600, 1300}

----------------------------------------------------------------------------
(* Exact arithmetic standing for the floating-point numbers of the code *)

Abs(x) == IF x < 0 THEN -x ELSE x

RECURSIVE GCD(_, _)
GCD(a, b) == IF b = 0 THEN a ELSE GCD(b, a % b)

NaN == [n |-> 0, d |-> 0]
IsNaN(r) == r.d = 0

\* the rational a/b in lowest terms, b > 0; 0/0 is NaN
Rat(a, b) ==
  IF b = 0 THEN NaN
  ELSE LET s == IF b < 0 THEN -1 ELSE 1
           g == GCD(Abs(a), Abs(b))
       IN  [n |-> (s * a) \div g, d |-> (s * b) \div g]

RInt(i) == [n |-> i, d |-> 1]
RAdd(x, y) == IF IsNaN(x) \/ IsNaN(y) THEN NaN ELSE Rat(x.n * y.d + y.n * x.d, x.d * y.d)
RSub(x, y) == IF IsNaN(x) \/ IsNaN(y) THEN NaN ELSE Rat(x.n * y.d - y.n * x.d, x.d * y.d)
RMul(x, y) == IF IsNaN(x) \/ IsNaN(y) THEN NaN ELSE Rat(x.n * y.n, x.d * y.d)
\* x / y for y # 0 or x = y = 0 (the only divisions the code performs here)
RDiv(x, y) == IF IsNaN(x) \/ IsNaN(y) \/ y.n = 0 THEN NaN ELSE Rat(x.n * y.d, x.d * y.n)
\* x < y, and Math.min(x, y), for numbers that are not NaN
RLess(x, y) == x.n * y.d < y.n * x.d
RMin(x, y) == IF RLess(y, x) THEN y ELSE x

\* significant bits of the floating-point numbers in the sizing functions (53 in a double)
Precision == 10

RECURSIVE Pow2(_)
Pow2(k) == IF k = 0 THEN 1 ELSE 2 * Pow2(k - 1)

\* the least number with more significant bits than a floating-point number holds
Limit == Pow2(Precision)

\* the floating-point number nearest to a/d > 0, ties to even, as <<numerator, denominator>>
RECURSIVE FlNearest(_, _)
FlNearest(a, d) ==
  IF a >= d * Limit
  THEN LET r == FlNearest(a, 2 * d) IN <<2 * r[1], r[2]>>
  ELSE IF 2 * a < d * Limit
       THEN LET r == FlNearest(2 * a, d) IN <<r[1], 2 * r[2]>>
       ELSE LET q == a \div d
                r == a % d
            IN  <<IF 2 * r > d \/ (2 * r = d /\ q % 2 = 1) THEN q + 1 ELSE q, 1>>

\* the floating-point number nearest to x: what an arithmetic operation of the code
\* whose exact result is x returns
Fl(x) ==
  IF IsNaN(x) \/ x.n = 0 \/ (x.d = 1 /\ Abs(x.n) < Limit) THEN x
  ELSE LET r == FlNearest(Abs(x.n), x.d)
       IN  Rat((IF x.n < 0 THEN -1 ELSE 1) * r[1], r[2])

\* the operators * and / on floating-point numbers
FMul(x, y) == Fl(RMul(x, y))
FDiv(x, y) == Fl(RDiv(x, y))

----------------------------------------------------------------------------
(* MockWalletEngine *)

\* a wallet value: the three mutable fields of MockWalletEngine
Wallet(c, p, h) == [cashBalance |-> c, positions |-> p, tradeHistory |-> h]

\* new Position literal of buy(), lines 63-73
NewPosition(quantity, price) ==
  [quantity |-> quantity, averagePrice |-> RInt(price), currentPrice |-> price,
   unrealizedPnL |-> RInt(0), realizedPnL |-> RInt(0)]

HistoryEntry(side, key, quantity, price) ==
  [side |-> side, key |-> key, quantity |-> quantity, price |-> price]

\* the balance check of buy(): TRUE when the call is refused
\* (a buy() that never refuses)
BuyRefusedNoCheck(w, quantity, price) == FALSE
BuyRefused(w, quantity, price) == quantity * price > w.cashBalance

\* MockWalletEngine.buy: <<wallet after the call, returned boolean>>
\* (a buy() that debits the cash before it looks at the balance)
WalletBuyDebitFirst(w, key, quantity, price) ==
  LET cost == quantity * price
  IN  IF BuyRefused(w, quantity, price)
      THEN <<[w EXCEPT !.cashBalance = @ - cost], FALSE>>
      ELSE <<[w EXCEPT !.cashBalance = @ - cost], TRUE>>
WalletBuy(w, key, quantity, price) ==
  LET cost == quantity * price
  IN  IF BuyRefused(w, quantity, price)
      THEN <<w, FALSE>>
      ELSE LET pos == IF key \in DOMAIN w.positions
                      THEN LET e == w.positions[key]
                               totalQuantity == e.quantity + quantity
                               totalCost == RAdd(RMul(RInt(e.quantity), e.averagePrice), RInt(cost))
                           IN  [e EXCEPT !.quantity = totalQuantity,
                                         !.averagePrice = RDiv(totalCost, RInt(totalQuantity)),
                                         !.currentPrice = price]
                      ELSE NewPosition(quantity, price)
           IN  <<Wallet(w.cashBalance - cost,
                        (key :> pos) @@ w.positions,
                        Append(w.tradeHistory, HistoryEntry("BUY", key, quantity, price))),
                 TRUE>>

\* the position check of sell(): TRUE when the call is refused
SellRefused(w, key, quantity) ==
  \/ key \notin DOMAIN w.positions
  \/ w.positions[key].quantity < quantity

\* MockWalletEngine.sell: <<wallet after the call, returned boolean>>
\* (a sell() that credits the cash and forgets the history entry)
WalletSellUnrecorded(w, key, quantity, price) ==
  IF SellRefused(w, key, quantity)
  THEN <<w, FALSE>>
  ELSE <<[w EXCEPT !.cashBalance = @ + quantity * price], TRUE>>
\* (a sell() that measures the realized PnL from the position's last price)
WalletSellFromLastPrice(w, key, quantity, price) ==
  IF SellRefused(w, key, quantity)
  THEN <<w, FALSE>>
  ELSE LET e == w.positions[key]
           pos == [e EXCEPT !.quantity = @ - quantity,
                            !.realizedPnL = RAdd(@, RInt((price - e.currentPrice) * quantity)),
                            !.currentPrice = price]
       IN  <<Wallet(w.cashBalance + quantity * price,
                    IF pos.quantity = 0
                    THEN [k \in DOMAIN w.positions \ {key} |-> w.positions[k]]
                    ELSE [w.positions EXCEPT ![key] = pos],
                    Append(w.tradeHistory, HistoryEntry("SELL", key, quantity, price))),
             TRUE>>
WalletSell(w, key, quantity, price) ==
  IF SellRefused(w, key, quantity)
  THEN <<w, FALSE>>
  ELSE LET e == w.positions[key]
           proceeds == quantity * price
           realizedPnL == RMul(RSub(RInt(price), e.averagePrice), RInt(quantity))
           pos == [e EXCEPT !.quantity = @ - quantity,
                            !.realizedPnL = RAdd(@, realizedPnL),
                            !.currentPrice = price]
           kept == IF pos.quantity = 0
                   THEN [k \in DOMAIN w.positions \ {key} |-> w.positions[k]]
                   ELSE [w.positions EXCEPT ![key] = pos]
       IN  <<Wallet(w.cashBalance + proceeds, kept,
                    Append(w.tradeHistory, HistoryEntry("SELL", key, quantity, price))),
             TRUE>>

\* the wallet held in the state variables
TheWallet == Wallet(cashBalance, positions, tradeHistory)

SetWallet(w) ==
  /\ UNCHANGED initialBalance
  /\ cashBalance' = w.cashBalance
  /\ positions' = w.positions
  /\ tradeHistory' = w.tradeHistory

NoCall == [op |-> "none", key |-> "", quantity |-> 0, price |-> 0, ok |-> FALSE, n |-> 0]

\* new MockWalletEngine(initialBalance)
WalletInit ==
  /\ initialBalance \in InitialBalances
  /\ cashBalance = initialBalance
  /\ positions = << >>
  /\ tradeHistory = << >>
  /\ walletCall = NoCall

NoLiveCall == [op |-> "none", inst |-> 0, checkedBefore |-> FALSE, outcome |-> "none", n |-> 0]

\* static state of the LiveExecutor module after loading
LiveInit ==
  /\ hasChecked = FALSE
  /\ liveExecutors = [i \in 1..MaxLive |-> "absent"]
  /\ liveSettlements = 0
  /\ liveCall = NoLiveCall

\* a caller invokes wallet.buy(key, quantity, price)
Buy(key, quantity, price) ==
  LET r == WalletBuy(TheWallet, key, quantity, price)
  IN  /\ walletCall.n < MaxCalls
      /\ SetWallet(r[1])
      /\ walletCall' = [op |-> "buy", key |-> key, quantity |-> quantity, price |-> price,
                        ok |-> r[2], n |-> walletCall.n + 1]
      /\ UNCHANGED <<testMode, runVars, liveVars, pipeVars, replayVars>>

\* a caller invokes wallet.sell(key, quantity, price)
Sell(key, quantity, price) ==
  LET r == WalletSell(TheWallet, key, quantity, price)
  IN  /\ walletCall.n < MaxCalls
      /\ SetWallet(r[1])
      /\ walletCall' = [op |-> "sell", key |-> key, quantity |-> quantity, price |-> price,
                        ok |-> r[2], n |-> walletCall.n + 1]
      /\ UNCHANGED <<testMode, runVars, liveVars, pipeVars, replayVars>>

\* MockWalletEngine.getTotalPnL().realized: the realizedPnL of the positions in the map
RECURSIVE RealizedOver(_, _)
RealizedOver(ps, ks) ==
  IF ks = {} THEN RInt(0)
  ELSE LET k == CHOOSE x \in ks : TRUE
       IN  RAdd(ps[k].realizedPnL, RealizedOver(ps, ks \ {k}))
GetTotalPnL(ps) == RealizedOver(ps, DOMAIN ps)

WalletNext ==
  \/ \E key \in Keys, quantity \in 0..MaxQty, price \in WalletPrices : Buy(key, quantity, price)
  \/ \E key \in Keys, quantity \in 0..MaxQty, price \in WalletPrices : Sell(key, quantity, price)

----------------------------------------------------------------------------
(* ConfigManager, LiveExecutionGuard, LiveExecutor *)

\* ConfigManager.assertLiveMode: TRUE when it throws
AssertLiveModeThrows(tm) == tm

\* config.wallet.privateKey is undefined in test mode and required by validateConfig otherwise
HasPrivateKey(tm) == ~tm

\* LiveExecutionGuard.assertSafeToLoad: TRUE when it throws
GuardThrows(checked, tm) == ~checked /\ tm

\* how LiveExecutor.executeOrder ends: the error it raises before the try block, or
\* "returned" when it reaches the settlement step and returns an ExecutionResult
\* (an executeOrder whose mode and initialization checks sit inside the try block)
ExecuteOrderOutcomeChecksInTry(checked, tm, initialized) ==
  IF GuardThrows(checked, tm) THEN "threw:guard" ELSE "returned"
ExecuteOrderOutcome(checked, tm, initialized) ==
  IF GuardThrows(checked, tm) THEN "threw:guard"
  ELSE IF AssertLiveModeThrows(tm) THEN "threw:mode"
  ELSE IF ~initialized THEN "threw:uninitialized"
  ELSE "returned"

\* how LiveExecutor.initialize ends
InitializeOutcome(checked, tm) ==
  IF GuardThrows(checked, tm) THEN "threw:guard"
  ELSE IF AssertLiveModeThrows(tm) THEN "threw:mode"
  ELSE IF ~HasPrivateKey(tm) THEN "threw:key"
  ELSE "ok"

LiveCalled(op, i, outcome) ==
  /\ liveCall.n < MaxLiveCalls
  /\ liveCall' = [op |-> op, inst |-> i, checkedBefore |-> hasChecked,
                  outcome |-> outcome, n |-> liveCall.n + 1]
  /\ hasChecked' = TRUE

\* new LiveExecutor()
LiveNew(i) ==
  /\ liveExecutors[i] = "absent"
  /\ LET outcome == IF GuardThrows(hasChecked, testMode) THEN "threw:guard" ELSE "ok"
     IN  /\ LiveCalled("new", i, outcome)
         /\ liveExecutors' = IF outcome = "ok" THEN [liveExecutors EXCEPT ![i] = "constructed"]
                             ELSE liveExecutors
  /\ UNCHANGED <<liveSettlements, testMode, runVars, walletVars, pipeVars, replayVars>>

\* LiveExecutor.initialize()
LiveInitialize(i) ==
  /\ liveExecutors[i] # "absent"
  /\ LET outcome == InitializeOutcome(hasChecked, testMode)
     IN  /\ LiveCalled("initialize", i, outcome)
         /\ liveExecutors' = IF outcome = "ok" THEN [liveExecutors EXCEPT ![i] = "initialized"]
                             ELSE liveExecutors
  /\ UNCHANGED <<liveSettlements, testMode, runVars, walletVars, pipeVars, replayVars>>

\* LiveExecutor.executeOrder(order)
LiveExecuteOrder(i) ==
  /\ liveExecutors[i] # "absent"
  /\ LET outcome == ExecuteOrderOutcome(hasChecked, testMode, liveExecutors[i] = "initialized")
     IN  /\ LiveCalled("executeOrder", i, outcome)
         /\ liveSettlements' = IF outcome = "returned" THEN liveSettlements + 1 ELSE liveSettlements
  /\ UNCHANGED <<liveExecutors, testMode, runVars, walletVars, pipeVars, replayVars>>

\* LiveExecutor.shutdown()
LiveShutdown(i) ==
  /\ liveExecutors[i] = "initialized"
  /\ liveCall.n < MaxLiveCalls
  /\ liveCall' = [op |-> "shutdown", inst |-> i, checkedBefore |-> hasChecked,
                  outcome |-> "ok", n |-> liveCall.n + 1]
  /\ liveExecutors' = [liveExecutors EXCEPT ![i] = "constructed"]
  /\ UNCHANGED <<hasChecked, liveSettlements, testMode, runVars, walletVars, pipeVars, replayVars>>

LiveNext ==
  \/ \E i \in 1..MaxLive : LiveNew(i)
  \/ \E i \in 1..MaxLive : LiveInitialize(i)
  \/ \E i \in 1..MaxLive : LiveExecuteOrder(i)
  \/ \E i \in 1..MaxLive : LiveShutdown(i)

----------------------------------------------------------------------------
(* Inputs of the pipeline *)

\* number of processTrade calls started in one run
MaxProcs == 2
\* number of distinct trade ids detected in one run
MaxTradeIds == 2

Procs == 1..MaxProcs

\* trackedTraders of the configuration: address -> multiplier
TrackedTraders == [a \in {"A"} |-> 1]
\* TRADER_CAPITAL_AMOUNTS of the environment: address -> capital estimate (mills);
\* ConfigManager.parseTrackedTraders reads TRACKED_TRADERS and POSITION_MULTIPLIERS only
TraderCapitalAmounts == [a \in {"A"} |-> 1000]
\* an address that is not tracked
Untracked == "U"

TradeSizes == {1, 2}
TradePrices == {300}

\* what a detected trade can be, its id apart
TradeShapes ==
  [trader : {"A"}, key : Keys, side : {"BUY", "SELL"}, size : TradeSizes, price : TradePrices]
  \cup [trader : {Untracked}, key : {"m1:o1"}, side : {"BUY"}, size : {2}, price : TradePrices]

NoTrade == [id |-> 0, trader |-> "", key |-> "", side |-> "", size |-> 0, price |-> 0]

WithId(shape, id) ==
  [id |-> id, trader |-> shape.trader, key |-> shape.key, side |-> shape.side,
   size |-> shape.size, price |-> shape.price]

\* risk configurations explored (mills); maxSlippageTolerance is tolNum / tolDen
RiskConfigs ==
  { [minTradeSizeUSD |-> 400, maxPositionSizeUSD |-> 900, maxTotalExposureUSD |-> 1500,
     tolNum |-> 2, tolDen |-> 100,
     enableExposureLimits |-> e, enableSlippageProtection |-> e] : e \in BOOLEAN }
  \cup
  { [minTradeSizeUSD |-> 400, maxPositionSizeUSD |-> 1200, maxTotalExposureUSD |-> 1200,
     tolNum |-> 2, tolDen |-> 100,
     enableExposureLimits |-> TRUE, enableSlippageProtection |-> TRUE] }

\* prices PriceSimulator.getPrice may draw for a key that has none (within [0.3, 0.7))
DrawnPrices == {300, 306, 307}

----------------------------------------------------------------------------
(* PriceSimulator *)

\* PriceSimulator.getPrice: the prices it can return for key
GetPriceSet(pr, key) == IF key \in DOMAIN pr THEN {pr[key]} ELSE DrawnPrices

\* PriceSimulator.prices after getPrice returned price for key
AfterGetPrice(pr, key, price) == IF key \in DOMAIN pr THEN pr ELSE (key :> price) @@ pr

----------------------------------------------------------------------------
(* MockExecutor *)

\* MockExecutor.simulateExecutionPrice: currentPrice * (1 +/- s), 0 <= s < 0.005,
\* on the grid of whole mills
ExecutionPrices(currentPrice, side) ==
  IF side = "BUY"
  THEN {p \in currentPrice..(currentPrice + currentPrice \div 100) :
          p * 1000 < currentPrice * 1005}
  ELSE {p \in (currentPrice - currentPrice \div 100)..currentPrice :
          p * 1000 > currentPrice * 995}

\* (a canExecute that refuses a BUY whose cost is the whole of the cash)
CanExecuteRefusesAtBalance(order, w) ==
  IF order.side = "BUY"
  THEN order.requestedSize * order.requestedPrice >= w.cashBalance
  ELSE \/ order.key \notin DOMAIN w.positions
       \/ w.positions[order.key].quantity < order.requestedSize
\* (a canExecute that leaves the balance check of a BUY to the settlement)
CanExecuteRefusesSellsOnly(order, w) ==
  IF order.side = "BUY"
  THEN FALSE
  ELSE \/ order.key \notin DOMAIN w.positions
       \/ w.positions[order.key].quantity < order.requestedSize
\* MockExecutor.canExecute on an initialized executor: TRUE when it answers canExecute: false
CanExecuteRefuses(order, w) ==
  IF order.side = "BUY"
  THEN order.requestedSize * order.requestedPrice > w.cashBalance
  ELSE \/ order.key \notin DOMAIN w.positions
       \/ w.positions[order.key].quantity < order.requestedSize

\* MockExecutor.executeOrder: the wallet call for the order at executionPrice
ExecuteOnWallet(w, order, executionPrice) ==
  IF order.side = "BUY"
  THEN WalletBuy(w, order.key, order.requestedSize, executionPrice)
  ELSE WalletSell(w, order.key, order.requestedSize, executionPrice)

----------------------------------------------------------------------------
(* PositionManager over DatabaseManager *)

RECURSIVE SumOver(_, _)
\* sum of quantity * currentPrice over the positions with keys in ks
SumOver(ps, ks) ==
  IF ks = {} THEN 0
  ELSE LET k == CHOOSE x \in ks : TRUE
       IN  ps[k].quantity * ps[k].currentPrice + SumOver(ps, ks \ {k})

\* PositionManager.getTotalExposure
GetTotalExposure(ps) == SumOver(ps, DOMAIN ps)

\* PositionManager.getPositionSize
GetPositionSize(ps, key) == IF key \in DOMAIN ps THEN ps[key].quantity ELSE 0

\* PositionManager.updatePosition: TRUE when it throws 'Cannot sell'
UpdatePositionThrows(ps, key, side, quantity) ==
  /\ side = "SELL"
  /\ \/ key \notin DOMAIN ps
     \/ ps[key].quantity < quantity

\* (an update that saves the position with the unrealizedPnL it was read with)
WithStaleUnrealized(pos) == pos
\* PositionManager, lines 108-110 and 135: unrealizedPnL recomputed from the fields to save
WithUnrealized(pos) ==
  [pos EXCEPT !.unrealizedPnL =
     RMul(RSub(RInt(pos.currentPrice), pos.averagePrice), RInt(pos.quantity))]

\* PositionManager.updatePosition: the newPosition it saves, computed from the position it read
\* (an updatePosition that takes the last price as the average of a merged position)
UpdatedPositionLastPrice(ps, key, side, quantity, price) ==
  WithUnrealized(
    IF side = "BUY"
    THEN IF key \in DOMAIN ps
         THEN [ps[key] EXCEPT !.quantity = @ + quantity,
                              !.averagePrice = RInt(price),
                              !.currentPrice = price]
         ELSE NewPosition(quantity, price)
    ELSE [ps[key] EXCEPT !.quantity = @ - quantity, !.currentPrice = price])
UpdatedPosition(ps, key, side, quantity, price) ==
  WithUnrealized(
    IF side = "BUY"
    THEN IF key \in DOMAIN ps
         THEN LET e == ps[key]
                  totalQuantity == e.quantity + quantity
                  totalCost == RAdd(RMul(RInt(e.quantity), e.averagePrice), RInt(quantity * price))
              IN  [e EXCEPT !.quantity = totalQuantity,
                            !.averagePrice = RDiv(totalCost, RInt(totalQuantity)),
                            !.currentPrice = price]
         ELSE NewPosition(quantity, price)
    ELSE LET e == ps[key]
             realizedPnL == RMul(RSub(RInt(price), e.averagePrice), RInt(quantity))
         IN  [e EXCEPT !.quantity = @ - quantity,
                       !.currentPrice = price,
                       !.realizedPnL = RAdd(@, realizedPnL)])

\* PositionManager.updatePositionPrice: the position it saves, from the position it read
UpdatedPositionPrice(pos, currentPrice) ==
  WithUnrealized([pos EXCEPT !.currentPrice = currentPrice])

----------------------------------------------------------------------------
(* RiskEngine *)

\* RiskEngine.calculateSafePositionSize for currentPrice > 0: the size in shares
CalculateSafePositionSize(originalSize, multiplier, currentPrice, cfg) ==
  LET scaled == FMul(RInt(originalSize), multiplier)
      maxSizeByValue == FDiv(RInt(cfg.maxPositionSizeUSD), RInt(currentPrice))
      adjustedSize == RMin(scaled, maxSizeByValue)
      minSizeByValue == FDiv(RInt(cfg.minTradeSizeUSD), RInt(currentPrice))
  IN  IF RLess(adjustedSize, minSizeByValue) THEN RInt(0) ELSE adjustedSize

\* (a getAvailableCapital that returns balance.available, the cash alone)
GetAvailableCash(w) == w.cashBalance
\* MockExecutor.getAvailableCapital: balance.total, the cash and the positions' value
GetAvailableCapital(w) == w.cashBalance + SumOver(w.positions, DOMAIN w.positions)

\* RiskEngine.calculateCapitalProportionalSize for traderCapital > 0 and currentPrice > 0,
\* botCapital being what executor.getAvailableCapital() returned
CalculateCapitalProportionalSize(tradeSize, tradePrice, traderCapital, currentPrice, botCapital, cfg) ==
  IF botCapital <= 0 THEN RInt(0)
  ELSE LET tradeValue == FMul(RInt(tradeSize), RInt(tradePrice))
           traderPositionPercent == FDiv(tradeValue, RInt(traderCapital))
           botPositionValue == FMul(RInt(botCapital), traderPositionPercent)
           maxSizeByValue == FDiv(RInt(cfg.maxPositionSizeUSD), RInt(currentPrice))
           adjustedSize == RMin(FDiv(botPositionValue, RInt(currentPrice)), maxSizeByValue)
           minSizeByValue == FDiv(RInt(cfg.minTradeSizeUSD), RInt(currentPrice))
       IN  IF RLess(adjustedSize, minSizeByValue) THEN RInt(0) ELSE adjustedSize

\* no sizing function called yet
NoSizing ==
  [fn |-> "none", tradeSize |-> 0, multiplier |-> RInt(0), tradePrice |-> 0,
   traderCapital |-> 0, currentPrice |-> 0, botCapital |-> 0, result |-> RInt(0)]

\* the checks of RiskEngine.validateOrder that the configuration enables, in the
\* order validateOrder runs them
\* (a validateOrder that asks the executor before the limits)
EnabledChecksAffordFirst(cfg) ==
  <<"minsize", "afford">>
  \o (IF cfg.enableExposureLimits THEN <<"position", "exposure">> ELSE << >>)
  \o (IF cfg.enableSlippageProtection THEN <<"slippage">> ELSE << >>)
EnabledChecks(cfg) ==
  <<"minsize">>
  \o (IF cfg.enableExposureLimits THEN <<"position", "exposure">> ELSE << >>)
  \o (IF cfg.enableSlippageProtection THEN <<"slippage">> ELSE << >>)
  \o <<"afford">>

\* the single checks of validateOrder: TRUE when the check fails the order
MinSizeFails(order, cfg) ==
  order.requestedSize * order.requestedPrice < cfg.minTradeSizeUSD

\* (a checkPositionSizeLimit that also turns away a position exactly at the cap)
PositionSizeFailsAtCap(order, cfg, currentPosition) ==
  /\ order.side = "BUY"
  /\ (currentPosition + order.requestedSize) * order.requestedPrice >= cfg.maxPositionSizeUSD
PositionSizeFails(order, cfg, currentPosition) ==
  /\ order.side = "BUY"
  /\ (currentPosition + order.requestedSize) * order.requestedPrice > cfg.maxPositionSizeUSD

\* (a checkTotalExposureLimit that applies the cap to SELL orders as well)
TotalExposureFailsAnySide(order, cfg, currentExposure) ==
  currentExposure + order.requestedSize * order.requestedPrice > cfg.maxTotalExposureUSD
TotalExposureFails(order, cfg, currentExposure) ==
  /\ order.side = "BUY"
  /\ currentExposure + order.requestedSize * order.requestedPrice > cfg.maxTotalExposureUSD

\* (a checkSlippage that also turns away a slippage equal to the tolerance)
SlippageFailsAtTolerance(order, cfg, currentPrice) ==
  Abs(currentPrice - order.requestedPrice) * cfg.tolDen >= cfg.tolNum * order.requestedPrice
\* slippagePercent > maxSlippageTolerance, cross-multiplied (requestedPrice > 0)
SlippageFails(order, cfg, currentPrice) ==
  Abs(currentPrice - order.requestedPrice) * cfg.tolDen > cfg.tolNum * order.requestedPrice

\* does this check read PositionManager (and so fail when its database is down)?
ReadsPositionManager(check, order) ==
  check \in {"position", "exposure"} /\ order.side = "BUY"

----------------------------------------------------------------------------
(* InMemoryDatabaseManager, DatabaseFactory *)

\* InMemoryDatabaseManager.isTradeProcessed
IsTradeProcessed(orders, tradeId) ==
  \E o \in DOMAIN orders : orders[o].originalTradeId = tradeId

\* the ExecutionOrder literal of processTrade, lines 77-91
NewOrder(trade, adjustedSize) ==
  [originalTradeId |-> trade.id, key |-> trade.key, side |-> trade.side,
   requestedSize |-> adjustedSize, executedSize |-> 0,
   requestedPrice |-> trade.price, executedPrice |-> 0,
   status |-> "PENDING", rejectionReason |-> "none"]

\* InMemoryDatabaseManager.updateExecutionOrder with { status, rejectionReason }
WithStatus(orders, id, status, reason) ==
  IF id \in DOMAIN orders
  THEN [orders EXCEPT ![id].status = status, ![id].rejectionReason = reason]
  ELSE orders

\* InMemoryDatabaseManager.updateExecutionOrder with { status: EXECUTED, executedSize, executedPrice }
WithExecuted(orders, id, size, price) ==
  IF id \in DOMAIN orders
  THEN [orders EXCEPT ![id].status = "EXECUTED", ![id].executedSize = size,
                      ![id].executedPrice = price]
  ELSE orders

\* <service>.getDatabase(): DatabaseFactory.getConnectedDatabase() unless already cached
GetDatabase(service) ==
  /\ serviceDb' = [serviceDb EXCEPT ![service] = TRUE]
  /\ IF ~serviceDb[service] /\ ~currentAdapter
     THEN connected' = TRUE /\ currentAdapter' = TRUE
     ELSE UNCHANGED <<connected, currentAdapter>>


----------------------------------------------------------------------------
(* MonitorService.feedTrade and ExecutorService.processTrade / executeOrder.     *)
(* One step per stretch of code between two awaits whose effect on shared state *)
(* happens at once; other calls may run between any two steps.                  *)

\* locals of a feedTrade call and of the processTrade call its 'trade' event starts
FreshProc ==
  [pc |-> "idle", trade |-> NoTrade, requestedSize |-> 0, chk |-> 0, reason |-> "none",
   executedPrice |-> 0, newPosition |-> NewPosition(0, 0), outcome |-> "none"]

\* the order object processTrade holds
OrderOf(i) == NewOrder(proc[i].trade, proc[i].requestedSize)

Finish(i, outcome) == [proc EXCEPT ![i].pc = "done", ![i].outcome = outcome]

\* monitorService.feedTrade(trade) is called: runs to `await this.getDatabase()`
FeedTrade(i, id) ==
  /\ proc[i].pc = "idle"
  /\ \A j \in Procs : j < i => proc[j].pc # "idle"
  /\ proc' = [proc EXCEPT ![i] = [FreshProc EXCEPT !.pc = "feedCheck",
                                                  !.trade = WithId(tradeLog[id], id)]]
  /\ GetDatabase("monitor")

\* feedTrade: db.isTradeProcessed(trade.id)
FeedCheck(i) ==
  /\ proc[i].pc = "feedCheck"
  /\ proc' = IF ~connected THEN Finish(i, "feedThrew")
             ELSE IF IsTradeProcessed(executionOrders, proc[i].trade.id)
                  THEN Finish(i, "feedSkipped")
                  ELSE [proc EXCEPT ![i].pc = "feedSave"]
  /\ UNCHANGED <<walletVars, testMode, runVars, liveVars, riskVars, monitoring, prices, dbVars, mongoVars,
                 tradeLog, replayVars>>

\* feedTrade: trackedTraders.find(...), db.saveTrade(trade)
FeedSave(i) ==
  /\ proc[i].pc = "feedSave"
  /\ IF proc[i].trade.trader \notin DOMAIN TrackedTraders
     THEN proc' = Finish(i, "untracked") /\ UNCHANGED trades
     ELSE IF ~connected
          THEN proc' = Finish(i, "feedThrew") /\ UNCHANGED trades
          ELSE /\ proc' = [proc EXCEPT ![i].pc = "feedEmit"]
               /\ trades' = trades \cup {proc[i].trade.id}
  /\ UNCHANGED <<walletVars, testMode, runVars, liveVars, riskVars, monitoring, prices, connected, currentAdapter,
                 serviceDb, executionOrders, mongoVars, tradeLog, replayVars>>

\* feedTrade: this.emit('trade', ...): the listener starts processTrade, which runs to
\* `await this.getDatabase()`; feedTrade returns
FeedEmit(i) ==
  /\ proc[i].pc = "feedEmit"
  /\ proc' = [proc EXCEPT ![i].pc = "check"]
  /\ GetDatabase("executor")
  /\ UNCHANGED <<walletVars, testMode, runVars, liveVars, riskVars, monitoring, prices, trades, executionOrders,
                 mongoVars, tradeLog, replayVars>>

\* processTrade: db.isTradeProcessed(trade.id)
Check(i) ==
  /\ proc[i].pc = "check"
  /\ proc' = IF ~connected THEN Finish(i, "error")
             ELSE IF IsTradeProcessed(executionOrders, proc[i].trade.id)
                  THEN Finish(i, "duplicate")
                  ELSE [proc EXCEPT ![i].pc = "save"]
  /\ UNCHANGED <<walletVars, testMode, runVars, liveVars, riskVars, monitoring, prices, dbVars, mongoVars,
                 tradeLog, replayVars>>

\* (a processTrade that does not skip a trade whose size came out 0)
SaveWithoutSkip(i) ==
  /\ proc[i].pc = "save"
  /\ LET t == proc[i].trade
         size == CalculateSafePositionSize(t.size, RInt(TrackedTraders[t.trader]),
                                           t.price, riskCfg)
         \* a whole number of shares for the traders, trades and caps explored
         adjustedSize == size.n \div size.d
     IN  IF FALSE
         THEN proc' = Finish(i, "tooSmall") /\ UNCHANGED executionOrders
         ELSE IF ~connected
              THEN proc' = Finish(i, "error") /\ UNCHANGED executionOrders
              ELSE /\ executionOrders' = (i :> NewOrder(t, adjustedSize)) @@ executionOrders
                   /\ proc' = [proc EXCEPT ![i].pc = "validate", ![i].chk = 1,
                                           ![i].requestedSize = adjustedSize]
  /\ UNCHANGED <<walletVars, testMode, runVars, liveVars, riskVars, monitoring, prices, connected, currentAdapter,
                 serviceDb, trades, mongoVars, tradeLog, replayVars>>
\* processTrade: sizing, the order literal, db.saveExecutionOrder(order)
Save(i) ==
  /\ proc[i].pc = "save"
  /\ LET t == proc[i].trade
         size == CalculateSafePositionSize(t.size, RInt(TrackedTraders[t.trader]),
                                           t.price, riskCfg)
         \* a whole number of shares for the traders, trades and caps explored
         adjustedSize == size.n \div size.d
     IN  IF adjustedSize = 0
         THEN proc' = Finish(i, "tooSmall") /\ UNCHANGED executionOrders
         ELSE IF ~connected
              THEN proc' = Finish(i, "error") /\ UNCHANGED executionOrders
              ELSE /\ executionOrders' = (i :> NewOrder(t, adjustedSize)) @@ executionOrders
                   /\ proc' = [proc EXCEPT ![i].pc = "validate", ![i].chk = 1,
                                           ![i].requestedSize = adjustedSize]
  /\ UNCHANGED <<walletVars, testMode, runVars, liveVars, riskVars, monitoring, prices, connected, currentAdapter,
                 serviceDb, trades, mongoVars, tradeLog, replayVars>>

\* validateOrder: the check passed; the next enabled check, or back to processTrade
Passed(i) ==
  IF proc[i].chk < Len(EnabledChecks(riskCfg))
  THEN [proc EXCEPT ![i].chk = @ + 1]
  ELSE [proc EXCEPT ![i].pc = "execute"]

\* validateOrder returns { valid: false, reason }
Invalid(i, reason) == [proc EXCEPT ![i].pc = "reject", ![i].reason = reason]

\* riskEngine.validateOrder(order): one enabled check
Validate(i) ==
  /\ proc[i].pc = "validate"
  /\ LET check == EnabledChecks(riskCfg)[proc[i].chk]
         order == OrderOf(i)
     IN  \/ /\ check = "minsize"
            /\ proc' = IF MinSizeFails(order, riskCfg) THEN Invalid(i, check) ELSE Passed(i)
            /\ UNCHANGED prices
         \/ /\ check = "position"
            /\ proc' = IF ReadsPositionManager(check, order) /\ ~mongoConnected
                       THEN Finish(i, "error")
                       ELSE IF PositionSizeFails(order, riskCfg,
                                                 GetPositionSize(pmPositions, order.key))
                            THEN Invalid(i, check)
                            ELSE Passed(i)
            /\ UNCHANGED prices
         \/ /\ check = "exposure"
            /\ proc' = IF ReadsPositionManager(check, order) /\ ~mongoConnected
                       THEN Finish(i, "error")
                       ELSE IF TotalExposureFails(order, riskCfg, GetTotalExposure(pmPositions))
                            THEN Invalid(i, check)
                            ELSE Passed(i)
            /\ UNCHANGED prices
         \/ /\ check = "slippage"
            /\ \E currentPrice \in GetPriceSet(prices, order.key) :
                 /\ prices' = AfterGetPrice(prices, order.key, currentPrice)
                 /\ proc' = IF SlippageFails(order, riskCfg, currentPrice)
                            THEN Invalid(i, check)
                            ELSE Passed(i)
         \/ /\ check = "afford"
            /\ proc' = IF CanExecuteRefuses(order, TheWallet) THEN Invalid(i, check)
                       ELSE Passed(i)
            /\ UNCHANGED prices
  /\ UNCHANGED <<walletVars, testMode, runVars, liveVars, riskVars, monitoring, dbVars, mongoVars, tradeLog,
                 replayVars>>

\* processTrade: db.updateExecutionOrder(order.id, { status: REJECTED, rejectionReason })
Reject(i) ==
  /\ proc[i].pc = "reject"
  /\ IF ~connected
     THEN proc' = Finish(i, "error") /\ UNCHANGED executionOrders
     ELSE /\ executionOrders' = WithStatus(executionOrders, i, "REJECTED", proc[i].reason)
          /\ proc' = Finish(i, "rejected")
  /\ UNCHANGED <<walletVars, testMode, runVars, liveVars, riskVars, monitoring, prices, connected, currentAdapter,
                 serviceDb, trades, mongoVars, tradeLog, replayVars>>

\* executeOrder: executor.executeOrder(order) on the MockExecutor
Execute(i) ==
  /\ proc[i].pc = "execute"
  /\ LET order == OrderOf(i)
     IN  \E currentPrice \in GetPriceSet(prices, order.key) :
           \E executionPrice \in ExecutionPrices(currentPrice, order.side) :
             LET r == ExecuteOnWallet(TheWallet, order, executionPrice)
             IN  /\ prices' = AfterGetPrice(prices, order.key, currentPrice)
                 /\ SetWallet(r[1])
                 /\ walletCall' = [op |-> IF order.side = "BUY" THEN "buy" ELSE "sell",
                                   key |-> order.key, quantity |-> order.requestedSize,
                                   price |-> executionPrice, ok |-> r[2],
                                   n |-> walletCall.n + 1]
                 /\ proc' = IF r[2]
                            THEN [proc EXCEPT ![i].pc = "markExecuted",
                                              ![i].executedPrice = executionPrice]
                            ELSE [proc EXCEPT ![i].pc = "markFailed",
                                              ![i].reason = "insufficient"]
  /\ UNCHANGED <<testMode, runVars, liveVars, riskVars, monitoring, dbVars, mongoVars, tradeLog, replayVars>>

\* executeOrder: the error is caught, lines 163-171
Caught(i) == [proc EXCEPT ![i].pc = "catchFail"]

\* executeOrder: db.updateExecutionOrder(order.id, { status: EXECUTED, ... })
MarkExecuted(i) ==
  /\ proc[i].pc = "markExecuted"
  /\ IF ~connected
     THEN proc' = Caught(i) /\ UNCHANGED executionOrders
     ELSE /\ executionOrders' = WithExecuted(executionOrders, i, proc[i].requestedSize,
                                             proc[i].executedPrice)
          /\ proc' = [proc EXCEPT ![i].pc = "pmRead"]
  /\ UNCHANGED <<walletVars, testMode, runVars, liveVars, riskVars, monitoring, prices, connected, currentAdapter,
                 serviceDb, trades, mongoVars, tradeLog, replayVars>>

\* (an updatePosition that clamps an oversell to quantity 0 and saves it)
PmReadClamps(i) ==
  /\ proc[i].pc = "pmRead"
  /\ LET t == proc[i].trade
     IN  proc' = IF ~mongoConnected
                 THEN Caught(i)
                 ELSE [proc EXCEPT ![i].pc = "pmSave",
                                   ![i].newPosition =
                                      IF UpdatePositionThrows(pmPositions, t.key, t.side,
                                                              proc[i].requestedSize)
                                      THEN NewPosition(0, proc[i].executedPrice)
                                      ELSE UpdatedPosition(pmPositions, t.key, t.side,
                                                           proc[i].requestedSize,
                                                           proc[i].executedPrice)]
  /\ UNCHANGED <<walletVars, testMode, runVars, liveVars, riskVars, monitoring, prices,
                 dbVars, mongoVars, tradeLog, replayVars>>
\* positionManager.updatePosition: getPosition and the new position computed from it
PmRead(i) ==
  /\ proc[i].pc = "pmRead"
  /\ LET t == proc[i].trade
     IN  proc' = IF ~mongoConnected
                    \/ UpdatePositionThrows(pmPositions, t.key, t.side, proc[i].requestedSize)
                 THEN Caught(i)
                 ELSE [proc EXCEPT ![i].pc = "pmSave",
                                   ![i].newPosition =
                                      UpdatedPosition(pmPositions, t.key, t.side,
                                                      proc[i].requestedSize,
                                                      proc[i].executedPrice)]
  /\ UNCHANGED <<walletVars, testMode, runVars, liveVars, riskVars, monitoring, prices, dbVars, mongoVars,
                 tradeLog, replayVars>>

\* positionManager.updatePosition: database.savePosition(newPosition)
PmSave(i) ==
  /\ proc[i].pc = "pmSave"
  /\ IF ~mongoConnected
     THEN proc' = Caught(i) /\ UNCHANGED pmPositions
     ELSE /\ pmPositions' = (proc[i].trade.key :> proc[i].newPosition) @@ pmPositions
          /\ proc' = Finish(i, "executed")
  /\ UNCHANGED <<walletVars, testMode, runVars, liveVars, riskVars, monitoring, prices, dbVars, mongoConnected,
                 tradeLog, replayVars>>

\* executeOrder: db.updateExecutionOrder(order.id, { status: FAILED, rejectionReason: result.error })
MarkFailed(i) ==
  /\ proc[i].pc = "markFailed"
  /\ IF ~connected
     THEN proc' = Caught(i) /\ UNCHANGED executionOrders
     ELSE /\ executionOrders' = WithStatus(executionOrders, i, "FAILED", proc[i].reason)
          /\ proc' = Finish(i, "failed")
  /\ UNCHANGED <<walletVars, testMode, runVars, liveVars, riskVars, monitoring, prices, connected, currentAdapter,
                 serviceDb, trades, mongoVars, tradeLog, replayVars>>

\* executeOrder, catch block: db.updateExecutionOrder(order.id, { status: FAILED, ... })
CatchFail(i) ==
  /\ proc[i].pc = "catchFail"
  /\ IF ~connected
     THEN proc' = Finish(i, "error") /\ UNCHANGED executionOrders
     ELSE /\ executionOrders' = WithStatus(executionOrders, i, "FAILED", "error")
          /\ proc' = Finish(i, "failedAfterError")
  /\ UNCHANGED <<walletVars, testMode, runVars, liveVars, riskVars, monitoring, prices, connected, currentAdapter,
                 serviceDb, trades, mongoVars, tradeLog, replayVars>>

\* a caller (replaySingleTrade, a poller) calls monitorService.feedTrade(trade)
Deliver(id) ==
  /\ \E i \in Procs : FeedTrade(i, id)
  /\ UNCHANGED <<walletVars, testMode, runVars, liveVars, riskVars, monitoring, prices, trades, executionOrders,
                 mongoVars, tradeLog, replayVars>>

\* DatabaseManager.connect()
MongoConnect ==
  /\ ~mongoConnected
  /\ mongoConnected' = TRUE
  /\ UNCHANGED <<walletVars, testMode, runVars, liveVars, riskVars, monitoring, prices, dbVars, pmPositions,
                 tradeLog, proc, replayVars>>

\* DatabaseManager.disconnect()
MongoDisconnect ==
  /\ mongoConnected
  /\ mongoConnected' = FALSE
  /\ UNCHANGED <<walletVars, testMode, runVars, liveVars, riskVars, monitoring, prices, dbVars, pmPositions,
                 tradeLog, proc, replayVars>>

\* DatabaseFactory.disconnect()
DatabaseDisconnect ==
  /\ currentAdapter
  /\ connected' = FALSE
  /\ currentAdapter' = FALSE
  /\ UNCHANGED <<walletVars, testMode, runVars, liveVars, riskVars, monitoring, prices, serviceDb, trades,
                 executionOrders, mongoVars, tradeLog, proc, replayVars>>

\* the steps of the calls in flight
Step(i) ==
  \/ FeedCheck(i)
  \/ FeedSave(i)
  \/ FeedEmit(i)
  \/ Check(i)
  \/ Save(i)
  \/ Validate(i)
  \/ Reject(i)
  \/ Execute(i)
  \/ MarkExecuted(i)
  \/ PmRead(i)
  \/ PmSave(i)
  \/ MarkFailed(i)
  \/ CatchFail(i)

\* the bot after PolymarketCopyBot.start() in test mode: database connected through the
\* factory, MockExecutor created and initialized, monitor started, nothing processed yet
BotStarted ==
  /\ testMode = TRUE
  /\ monitoring = TRUE
  /\ riskCfg \in RiskConfigs
  /\ sizing = NoSizing
  /\ prices = << >>
  /\ connected = TRUE
  /\ currentAdapter = TRUE
  /\ serviceDb = [s \in {"monitor", "executor"} |-> FALSE]
  /\ trades = {}
  /\ executionOrders = << >>
  /\ pmPositions = << >>
  /\ proc = [i \in Procs |-> FreshProc]

PipeInit ==
  /\ BotStarted
  /\ mongoConnected = FALSE
  /\ tradeLog \in [1..MaxTradeIds -> TradeShapes]

----------------------------------------------------------------------------
(* ExecutorFactory *)

\* the getExecutor calls that may be in flight at once
MaxCallers == 2
\* the executors one process may create
MaxExecutors == 3

Callers == 1..MaxCallers

\* a getExecutor call not made yet
NotCalled == [pc |-> "idle", mine |-> 0, got |-> 0, gotInitialized |-> FALSE]

\* ExecutorFactory at module load: instance null (0); executors are numbered from 1 in
\* the order they are constructed, sinceShutdown counts those constructed since the
\* last shutdown
NewFactory ==
  [instance |-> 0, created |-> 0, sinceShutdown |-> 0, initialized |-> {},
   calls |-> [c \in Callers |-> NotCalled]]

\* getExecutor up to its first await: the instance at hand is returned, otherwise the
\* module of the executor is imported (test mode; LiveExecutor is built by Construct)
GetExecutor(c) ==
  /\ testMode
  /\ factory.calls[c].pc = "idle"
  /\ factory' =
       IF factory.instance # 0
       THEN [factory EXCEPT !.calls[c].pc = "returned",
                            !.calls[c].got = factory.instance,
                            !.calls[c].gotInitialized = factory.instance \in factory.initialized]
       ELSE [factory EXCEPT !.calls[c].pc = "import"]
  /\ UNCHANGED <<script, runs, walletVars, testMode, liveVars, pipeVars, replayVars>>

\* the import done: this.instance = new MockExecutor(), and initialize() entered up
\* to its await of priceSimulator.initialize()
CreateExecutor(c) ==
  /\ factory.calls[c].pc = "import"
  /\ factory.created < MaxExecutors
  /\ factory' = [factory EXCEPT !.created = @ + 1,
                                !.sinceShutdown = @ + 1,
                                !.instance = factory.created + 1,
                                !.calls[c].mine = factory.created + 1,
                                !.calls[c].pc = "initialize"]
  /\ UNCHANGED <<script, runs, walletVars, testMode, liveVars, pipeVars, replayVars>>

\* MockExecutor.initialize resumed: this.initialized = true
InitializeExecutor(c) ==
  /\ factory.calls[c].pc = "initialize"
  /\ factory' = [factory EXCEPT !.initialized = @ \cup {factory.calls[c].mine},
                                !.calls[c].pc = "return"]
  /\ UNCHANGED <<script, runs, walletVars, testMode, liveVars, pipeVars, replayVars>>

\* getExecutor resumed after await this.instance.initialize(): return this.instance
ReturnExecutor(c) ==
  /\ factory.calls[c].pc = "return"
  /\ factory' = [factory EXCEPT !.calls[c].pc = "returned",
                                !.calls[c].got = factory.instance,
                                !.calls[c].gotInitialized = factory.instance \in factory.initialized]
  /\ UNCHANGED <<script, runs, walletVars, testMode, liveVars, pipeVars, replayVars>>

\* ExecutorFactory.shutdown called when no getExecutor call is in flight; the callers
\* are then free to call again
FactoryShutdown ==
  /\ \A c \in Callers : factory.calls[c].pc = "returned"
  /\ factory.instance # 0
  /\ factory' = [factory EXCEPT !.instance = 0,
                                !.sinceShutdown = 0,
                                !.initialized = @ \ {factory.instance},
                                !.calls = [c \in Callers |-> NotCalled]]
  /\ UNCHANGED <<script, runs, walletVars, testMode, liveVars, pipeVars, replayVars>>

FactoryNext ==
  \/ \E c \in Callers : GetExecutor(c)
  \/ \E c \in Callers : CreateExecutor(c)
  \/ \E c \in Callers : InitializeExecutor(c)
  \/ \E c \in Callers : ReturnExecutor(c)
  \/ FactoryShutdown

\* no second process, the factory untouched
NoRuns == script = << >> /\ runs = << >> /\ factory = NewFactory

ReplayInit ==
  /\ loaded = << >>
  /\ isReplaying = FALSE
  /\ replay = [pc |-> "idle", idx |-> 0, slot |-> 0, tradesToReplay |-> << >>, again |-> "none"]
  /\ fed = << >>

Next ==
  \/ \E id \in 1..MaxTradeIds : Deliver(id)
  \/ \E i \in Procs : Step(i)
  \/ MongoConnect
  \/ MongoDisconnect

Init == WalletInit /\ LiveInit /\ PipeInit /\ ReplayInit /\ NoRuns

\* trades delivered by direct feedTrade calls, any number of them in flight at once
Spec == Init /\ [][Next]_vars

\* a caller that lets each trade's processing finish before it feeds the next, as a
\* replay whose delay between two trades outlasts the processing
DeliverWhenQuiet(id) ==
  /\ \A j \in Procs : proc[j].pc \in {"idle", "done"}
  /\ Deliver(id)

SeqNext ==
  \/ \E id \in 1..MaxTradeIds : DeliverWhenQuiet(id)
  \/ \E i \in Procs : Step(i)
  \/ MongoConnect
  \/ MongoDisconnect

InitSeq == Init

\* trades processed one at a time
SpecSeq == InitSeq /\ [][SeqNext]_vars

\* a script calls the wallet of the running bot between two trades
DirectBuy(quantity, price) ==
  /\ \A j \in Procs : proc[j].pc \in {"idle", "done"}
  /\ Buy("m1:o1", quantity, price)

DirectSell(quantity, price) ==
  /\ \A j \in Procs : proc[j].pc \in {"idle", "done"}
  /\ Sell("m1:o1", quantity, price)

LedgerNext ==
  \/ \E id \in 1..MaxTradeIds : DeliverWhenQuiet(id)
  \/ \E i \in Procs : Step(i)
  \/ \E quantity \in 0..MaxQty, price \in TradePrices : DirectBuy(quantity, price)
  \/ \E quantity \in 0..MaxQty, price \in TradePrices : DirectSell(quantity, price)

\* the trades of the ledger runs: whole buys and sells of one market
LedgerShapes == {s \in TradeShapes : s.trader = "A" /\ s.key = "m1:o1" /\ s.size = 2}

\* the bot started, PositionManager's database connected as well
InitLedger ==
  /\ WalletInit /\ LiveInit /\ BotStarted /\ ReplayInit /\ NoRuns
  /\ mongoConnected = TRUE
  /\ tradeLog \in [1..MaxTradeIds -> LedgerShapes]

\* the wallet called both by the pipeline's settlements and directly
SpecLedger == InitLedger /\ [][LedgerNext]_vars

\* the bot started over a positions collection that an earlier run may have left a
\* position of one share in (the collection outlives the process, the wallet does not)
InitPositions ==
  /\ WalletInit /\ LiveInit /\ ReplayInit /\ NoRuns
  /\ testMode = TRUE
  /\ riskCfg \in RiskConfigs
  /\ sizing = NoSizing
  /\ monitoring = TRUE
  /\ prices = << >>
  /\ connected = TRUE
  /\ currentAdapter = TRUE
  /\ serviceDb = [s \in {"monitor", "executor"} |-> FALSE]
  /\ trades = {}
  /\ executionOrders = << >>
  /\ mongoConnected = TRUE
  /\ pmPositions \in {<< >>, "m1:o1" :> NewPosition(1, 300)}
  /\ tradeLog \in [1..MaxTradeIds -> LedgerShapes]
  /\ proc = [i \in Procs |-> FreshProc]

\* the pipeline and direct wallet calls over such a collection
SpecPositions == InitPositions /\ [][LedgerNext]_vars

\* PositionManager.updatePositionPrice(marketId, outcomeId, currentPrice) called between
\* two trades: it returns at once when there is no position, and raises when the
\* database is down
UpdatePositionPrice(key, currentPrice) ==
  /\ \A j \in Procs : proc[j].pc \in {"idle", "done"}
  /\ mongoConnected
  /\ key \in DOMAIN pmPositions
  /\ pmPositions' = [pmPositions EXCEPT ![key] = UpdatedPositionPrice(@, currentPrice)]
  /\ UNCHANGED <<walletVars, testMode, runVars, liveVars, riskVars, monitoring, prices, dbVars,
                 mongoConnected, tradeLog, proc, replayVars>>

MarkNext ==
  \/ SeqNext
  \/ \E key \in Keys, currentPrice \in DrawnPrices : UpdatePositionPrice(key, currentPrice)

InitMark == Init

\* trades processed one at a time, the positions re-priced between them
SpecMark == InitMark /\ [][MarkNext]_vars

----------------------------------------------------------------------------
(* TradeReplayRunner *)

\* Array.prototype.slice(startIndex, endIndex) for 0 <= startIndex, endIndex <= length
Slice(s, startIndex, endIndex) == SubSeq(s, startIndex + 1, endIndex)

\* (a replay that only turns away a call made with no trades loaded)
ReplayRefusedWhenEmpty(ld, running) == Len(ld) = 0
\* TradeReplayRunner.replay, lines 55-61: TRUE when the call throws before it starts
ReplayRefused(ld, running) == Len(ld) = 0 \/ running

\* replay(options) is called: the checks, isReplaying = true, the slice
ReplayCall(startIndex, endIndex) ==
  /\ replay.pc = "idle"
  /\ testMode
  /\ startIndex <= Len(loaded)
  /\ endIndex <= Len(loaded)
  /\ IF ReplayRefused(loaded, isReplaying)
     THEN /\ replay' = [replay EXCEPT !.pc = "threw"]
          /\ UNCHANGED isReplaying
     ELSE /\ isReplaying' = TRUE
          /\ replay' = [pc |-> "loop", idx |-> 1, slot |-> 0,
                        tradesToReplay |-> Slice(loaded, startIndex, endIndex),
                        again |-> "none"]
  /\ UNCHANGED <<walletVars, testMode, runVars, liveVars, pipeVars, loaded, fed>>

\* the loop body: monitorService.feedTrade(trade) is called and awaited
ReplayFeed ==
  /\ replay.pc = "loop"
  /\ replay.idx <= Len(replay.tradesToReplay)
  /\ \E i \in Procs :
       /\ FeedTrade(i, replay.tradesToReplay[replay.idx])
       /\ replay' = [replay EXCEPT !.pc = "await", !.slot = i]
  /\ fed' = Append(fed, replay.tradesToReplay[replay.idx])
  /\ UNCHANGED <<walletVars, testMode, runVars, liveVars, riskVars, monitoring, prices, trades, executionOrders,
                 mongoVars, tradeLog, loaded, isReplaying>>

\* the awaited feedTrade has returned or thrown; catch rethrows, finally clears isReplaying
ReplayResume ==
  /\ replay.pc = "await"
  /\ proc[replay.slot].pc \notin {"feedCheck", "feedSave", "feedEmit"}
  /\ IF proc[replay.slot].outcome = "feedThrew"
     THEN /\ replay' = [replay EXCEPT !.pc = "threw"]
          /\ isReplaying' = FALSE
     ELSE /\ replay' = [replay EXCEPT !.pc = "loop", !.idx = @ + 1]
          /\ UNCHANGED isReplaying
  /\ UNCHANGED <<walletVars, testMode, runVars, liveVars, pipeVars, loaded, fed>>

\* the loop is over: 'Replay completed', finally clears isReplaying
ReplayReturn ==
  /\ replay.pc = "loop"
  /\ replay.idx > Len(replay.tradesToReplay)
  /\ replay' = [replay EXCEPT !.pc = "returned"]
  /\ isReplaying' = FALSE
  /\ UNCHANGED <<walletVars, testMode, runVars, liveVars, pipeVars, loaded, fed>>

\* replay() called once more while the first call is inside its loop: the call throws,
\* or it sets isReplaying and starts a loop of its own
ReplayCallAgain ==
  /\ replay.pc \in {"loop", "await"}
  /\ replay.again = "none"
  /\ testMode
  /\ IF ReplayRefused(loaded, isReplaying)
     THEN /\ replay' = [replay EXCEPT !.again = "threw"]
          /\ UNCHANGED isReplaying
     ELSE /\ replay' = [replay EXCEPT !.again = "started"]
          /\ isReplaying' = TRUE
  /\ UNCHANGED <<walletVars, testMode, runVars, liveVars, pipeVars, loaded, fed>>

\* monitorService.stop(), the stop PolymarketCopyBot.stop() requests on SIGINT
MonitorStop ==
  /\ monitoring
  /\ monitoring' = FALSE
  /\ UNCHANGED <<walletVars, testMode, runVars, liveVars, riskVars, prices, dbVars, mongoVars,
                 tradeLog, proc, replayVars>>

ReplayNext ==
  \/ \E startIndex, endIndex \in 0..MaxProcs : ReplayCall(startIndex, endIndex)
  \/ isReplaying /\ MonitorStop
  \/ ReplayFeed
  \/ ReplayResume
  \/ ReplayReturn
  \/ ReplayCallAgain
  \/ \E i \in Procs : Step(i)
  \/ DatabaseDisconnect

\* the trades replayed: buys of one market, and one trade of an untracked trader
ReplayShapes == {s \in TradeShapes : s.side = "BUY" /\ s.key = "m1:o1"}

\* trades loaded by loadTrades, the bot started
InitReplay ==
  /\ WalletInit /\ LiveInit /\ BotStarted /\ NoRuns
  /\ mongoConnected \in BOOLEAN
  /\ tradeLog \in [1..MaxTradeIds -> ReplayShapes]
  /\ loaded \in UNION {[1..n -> 1..MaxTradeIds] : n \in 0..MaxProcs}
  /\ isReplaying = FALSE
  /\ replay = [pc |-> "idle", idx |-> 0, slot |-> 0, tradesToReplay |-> << >>, again |-> "none"]
  /\ fed = << >>

\* one replay of the loaded trades, the bot's database possibly disconnected meanwhile
SpecReplay == InitReplay /\ [][ReplayNext]_vars

----------------------------------------------------------------------------
(* Specifications *)

\* the process before PolymarketCopyBot.start(): nothing connected, nothing detected
NotStarted ==
  /\ riskCfg = CHOOSE c \in RiskConfigs : c.enableExposureLimits
  /\ sizing = NoSizing
  /\ monitoring = FALSE
  /\ prices = << >>
  /\ connected = FALSE
  /\ currentAdapter = FALSE
  /\ serviceDb = [s \in {"monitor", "executor"} |-> FALSE]
  /\ trades = {}
  /\ executionOrders = << >>
  /\ mongoConnected = FALSE
  /\ pmPositions = << >>
  /\ tradeLog = [id \in 1..MaxTradeIds |-> CHOOSE s \in TradeShapes : TRUE]
  /\ proc = [i \in Procs |-> FreshProc]

InitWallet == WalletInit /\ LiveInit /\ NotStarted /\ ReplayInit /\ NoRuns /\ testMode = TRUE

\* MockWalletEngine driven directly by buy and sell calls
SpecWallet == InitWallet /\ [][WalletNext]_vars

InitLive == WalletInit /\ LiveInit /\ NotStarted /\ ReplayInit /\ NoRuns /\ testMode \in BOOLEAN

\* LiveExecutor objects constructed and called in either mode
SpecLive == InitLive /\ [][LiveNext]_vars

\* the inputs of the sizing functions explored: trade sizes in shares, multipliers,
\* prices and capital estimates in mills
SizingSizes == {1, 2, 5}
SizingMultipliers == {Rat(1, 2), RInt(1), RInt(3)}
SizingPrices == {299, 300, 500}
TraderCapitals == {1000, 10000}
\* configured testMode.initialBalance values explored for sizing, an empty wallet included
SizingBalances == {0} \cup InitialBalances
\* risk limits explored for sizing: also a floor equal to a trade's value, a floor
\* above the cap, and no floor
SizingConfigs ==
  RiskConfigs
  \cup { [minTradeSizeUSD |-> f, maxPositionSizeUSD |-> c, maxTotalExposureUSD |-> 1500,
          tolNum |-> 2, tolDen |-> 100,
          enableExposureLimits |-> TRUE, enableSlippageProtection |-> TRUE] :
          <<f, c>> \in {<<600, 900>>, <<1000, 900>>, <<0, 1200>>} }

\* riskEngine.calculateSafePositionSize(originalSize, multiplier, currentPrice)
SizeByMultiplier(originalSize, multiplier, currentPrice) ==
  /\ sizing' = [fn |-> "calculateSafePositionSize", tradeSize |-> originalSize,
                multiplier |-> multiplier, tradePrice |-> currentPrice,
                traderCapital |-> 0, currentPrice |-> currentPrice,
                botCapital |-> 0,
                result |-> CalculateSafePositionSize(originalSize, multiplier,
                                                     currentPrice, riskCfg)]
  /\ UNCHANGED <<walletVars, testMode, runVars, liveVars, riskCfg, monitoring, prices, dbVars, mongoVars,
                 tradeLog, proc, replayVars>>

\* riskEngine.calculateCapitalProportionalSize(tradeSize, tradePrice, traderCapital,
\* currentPrice) with the MockExecutor initialized
SizeByCapital(tradeSize, tradePrice, traderCapital, currentPrice) ==
  /\ LET botCapital == GetAvailableCapital(TheWallet)
     IN  sizing' = [fn |-> "calculateCapitalProportionalSize", tradeSize |-> tradeSize,
                    multiplier |-> RInt(0), tradePrice |-> tradePrice,
                    traderCapital |-> traderCapital, currentPrice |-> currentPrice,
                    botCapital |-> botCapital,
                    result |-> CalculateCapitalProportionalSize(tradeSize, tradePrice,
                                 traderCapital, currentPrice, botCapital, riskCfg)]
  /\ UNCHANGED <<walletVars, testMode, runVars, liveVars, riskCfg, monitoring, prices, dbVars, mongoVars,
                 tradeLog, proc, replayVars>>

\* a share bought on the fresh wallet, so that the capital is not the cash alone
BuyBeforeSizing ==
  /\ walletCall.n = 0
  /\ \E price \in TradePrices : Buy("m1:o1", 1, price)

SizingNext ==
  \/ BuyBeforeSizing
  \/ \E originalSize \in SizingSizes, multiplier \in SizingMultipliers,
        currentPrice \in SizingPrices :
       SizeByMultiplier(originalSize, multiplier, currentPrice)
  \/ \E tradeSize \in SizingSizes, tradePrice \in SizingPrices,
        traderCapital \in TraderCapitals, currentPrice \in SizingPrices :
       SizeByCapital(tradeSize, tradePrice, traderCapital, currentPrice)

\* the bot in test mode with a fresh wallet, before any trade
InitSizing ==
  /\ initialBalance \in SizingBalances
  /\ cashBalance = initialBalance
  /\ positions = << >>
  /\ tradeHistory = << >>
  /\ walletCall = NoCall
  /\ LiveInit /\ ReplayInit /\ NoRuns
  /\ testMode = TRUE
  /\ riskCfg \in SizingConfigs
  /\ sizing = NoSizing
  /\ monitoring = TRUE
  /\ prices = << >>
  /\ connected = TRUE
  /\ currentAdapter = TRUE
  /\ serviceDb = [s \in {"monitor", "executor"} |-> FALSE]
  /\ trades = {}
  /\ executionOrders = << >>
  /\ mongoConnected = FALSE
  /\ pmPositions = << >>
  /\ tradeLog = [id \in 1..MaxTradeIds |-> CHOOSE s \in TradeShapes : TRUE]
  /\ proc = [i \in Procs |-> FreshProc]

\* the two sizing functions of RiskEngine called with any explored input
SpecSizing == InitSizing /\ [][SizingNext]_vars

----------------------------------------------------------------------------
(* PriceSimulator with its random generator, and MockExecutor.executeOrder on it *)

\* LCG_MULTIPLIER and LCG_INCREMENT of seededRandom
LcgMultiplier == 1664525
LcgIncrement == 1013904223
\* LCG_MODULUS is Half * Half: a generator state is held as [hi, lo], state = hi * Half + lo
Half == 65536

\* the clamp of setPrice, 0.01 and 0.99, and the default volatility 0.02, in mills
MinPrice == 10
MaxPrice == 990
DefaultVolatility == 20

\* the generator of a simulator built with a seed, and this.random = Math.random
Seeded(seed) == [seeded |-> TRUE, hi |-> seed \div Half, lo |-> seed % Half]
MathRandom == [seeded |-> FALSE, hi |-> 0, lo |-> 0]

\* seededRandom: state = (state * LCG_MULTIPLIER + LCG_INCREMENT) % LCG_MODULUS
SeededRandom(state) ==
  LET low == state.lo * (LcgMultiplier % Half) + (LcgIncrement % Half)
      high == state.hi * (LcgMultiplier % Half) + state.lo * (LcgMultiplier \div Half)
              + (LcgIncrement \div Half) + (low \div Half)
  IN  [state EXCEPT !.hi = high % Half, !.lo = low % Half]

\* floor(m * state / LCG_MODULUS): the returned state / LCG_MODULUS in units of 1/m
Scaled(state, m) == (state.hi * m + (state.lo * m) \div Half) \div Half

\* this.random() in units of 1/m: the pairs <<generator after the call, value returned>>
\* (a simulator that ignores its seed)
RandomUnseeded(random, m) == {<<random, v>> : v \in {0, m \div 2, m - 1}}
Random(random, m) ==
  IF random.seeded
  THEN LET state == SeededRandom(random) IN {<<state, Scaled(state, m)>>}
  ELSE {<<random, v>> : v \in {0, m \div 2, m - 1}}

\* new PriceSimulator(volatility, seed)
NewPriceSimulator(volatility, random) ==
  [random |-> random, volatility |-> volatility, prices |-> << >>, priceHistory |-> << >>]

Min(a, b) == IF a < b THEN a ELSE b
Max(a, b) == IF a > b THEN a ELSE b

\* Math.max(0.01, Math.min(0.99, price))
Clamped(price) == Max(MinPrice, Min(MaxPrice, price))

\* PriceSimulator.setPrice: the simulator after the call
\* (a setPrice that stores the price it was given)
SetPriceUnclamped(sim, key, price) ==
  [sim EXCEPT !.prices = (key :> price) @@ @,
              !.priceHistory = (key :> Append(IF key \in DOMAIN @ THEN @[key] ELSE << >>,
                                              price)) @@ @]
SetPrice(sim, key, price) ==
  LET clampedPrice == Clamped(price)
      history == IF key \in DOMAIN sim.priceHistory THEN sim.priceHistory[key] ELSE << >>
  IN  [sim EXCEPT !.prices = (key :> clampedPrice) @@ @,
                  !.priceHistory = (key :> Append(history, clampedPrice)) @@ @]

\* PriceSimulator.getPrice: the pairs <<simulator after the call, price returned>>
GetPrice(sim, key) ==
  IF key \in DOMAIN sim.prices
  THEN {<<sim, sim.prices[key]>>}
  ELSE {<<SetPrice([sim EXCEPT !.random = r[1]], key, 300 + r[2]), 300 + r[2]>> :
          r \in Random(sim.random, 400)}

\* PriceSimulator.simulatePriceMovement: <<simulator after the call, price returned>>
SimulatePriceMovement(sim, key) ==
  UNION {{LET change == r[2] - g[1].volatility
              newPrice == g[2] + change
          IN  <<SetPrice([g[1] EXCEPT !.random = r[1]], key, newPrice), newPrice>> :
            r \in Random(g[1].random, 2 * g[1].volatility)} :
         g \in GetPrice(sim, key)}

\* PriceSimulator.simulateMarketDynamics: the simulators it can leave
SimulateMarketDynamics(sim, key, event) ==
  UNION {{LET currentPrice == g[2]
              newPrice == IF event = "positive"
                          THEN (currentPrice * (1050 + r[2])) \div 1000
                          ELSE IF event = "negative"
                               THEN (currentPrice * (950 - r[2])) \div 1000
                               ELSE currentPrice + r[2] - (g[1].volatility \div 2)
          IN  SetPrice([g[1] EXCEPT !.random = r[1]], key, newPrice) :
            r \in Random(g[1].random, IF event = "neutral" THEN g[1].volatility ELSE 100)} :
         g \in GetPrice(sim, key)}

RECURSIVE LoadHistoricalPrices(_, _)
\* PriceSimulator.loadHistoricalPrices: setPrice for each snapshot, in order
LoadHistoricalPrices(sim, snapshots) ==
  IF snapshots = << >> THEN sim
  ELSE LoadHistoricalPrices(SetPrice(sim, Head(snapshots).key, Head(snapshots).price),
                            Tail(snapshots))

\* what a call returned: a price, or an ExecutionResult, or nothing
Returned(price, success, executedSize) ==
  [price |-> price, success |-> success, executedSize |-> executedSize]
Nothing == Returned(0, FALSE, 0)

\* a MockExecutor: its PriceSimulator and its wallet
NewMockExecutor(balance, volatility, random) ==
  [priceSimulator |-> NewPriceSimulator(volatility, random),
   wallet |-> Wallet(balance, << >>, << >>)]

\* MockExecutor.executeOrder on an initialized executor:
\* the pairs <<executor after the call, ExecutionResult>>
\* (an executeOrder whose failure result still carries the execution price)
ExecuteOrderReportsPrice(ex, order) ==
  UNION {{LET w == ExecuteOnWallet(ex.wallet, order, executionPrice)
          IN  <<[priceSimulator |-> g[1], wallet |-> w[1]],
                Returned(executionPrice, w[2], IF w[2] THEN order.requestedSize ELSE 0)>> :
            executionPrice \in ExecutionPrices(g[2], order.side)} :
         g \in GetPrice(ex.priceSimulator, order.key)}
ExecuteOrder(ex, order) ==
  UNION {{LET w == ExecuteOnWallet(ex.wallet, order, executionPrice)
          IN  <<[priceSimulator |-> g[1], wallet |-> w[1]],
                IF w[2] THEN Returned(executionPrice, TRUE, order.requestedSize)
                ELSE Returned(0, FALSE, 0)>> :
            executionPrice \in ExecutionPrices(g[2], order.side)} :
         g \in GetPrice(ex.priceSimulator, order.key)}

\* the calls of a script
Call(op, price, event, side) ==
  [op |-> op, key |-> "m1:o1", price |-> price, event |-> event, side |-> side]
SetPrices == {5, 985, 2000}
Snapshots == <<[key |-> "m1:o1", price |-> 2000], [key |-> "m1:o1", price |-> 5]>>
Calls ==
  {Call("getPrice", 0, "", ""), Call("simulatePriceMovement", 0, "", ""),
   Call("loadHistoricalPrices", 0, "", "")}
  \cup {Call("setPrice", p, "", "") : p \in SetPrices}
  \cup {Call("simulateMarketDynamics", 0, e, "") : e \in {"positive", "negative", "neutral"}}
  \cup {Call("executeOrder", 300, "", side) : side \in {"BUY", "SELL"}}

\* the order executeOrder is called with: one share at the call's price
ScriptOrder(c) ==
  [key |-> c.key, side |-> c.side, requestedSize |-> 1, requestedPrice |-> c.price]

\* one call on an executor: the pairs <<executor after the call, value returned>>
Outcomes(ex, c) ==
  LET sim == ex.priceSimulator
      With(s) == [ex EXCEPT !.priceSimulator = s]
  IN  IF c.op = "getPrice"
      THEN {<<With(g[1]), Returned(g[2], FALSE, 0)>> : g \in GetPrice(sim, c.key)}
      ELSE IF c.op = "simulatePriceMovement"
      THEN {<<With(g[1]), Returned(g[2], FALSE, 0)>> : g \in SimulatePriceMovement(sim, c.key)}
      ELSE IF c.op = "setPrice"
      THEN {<<With(SetPrice(sim, c.key, c.price)), Nothing>>}
      ELSE IF c.op = "simulateMarketDynamics"
      THEN {<<With(s), Nothing>> : s \in SimulateMarketDynamics(sim, c.key, c.event)}
      ELSE IF c.op = "loadHistoricalPrices"
      THEN {<<With(LoadHistoricalPrices(sim, Snapshots)), Nothing>>}
      ELSE ExecuteOrder(ex, ScriptOrder(c))

MaxScript == 3
Seeds == {42, 123456789}
Runs == 1..2

\* process r makes its next call of the script
MakeCall(r) ==
  /\ Len(runs[r].returned) < Len(script)
  /\ LET c == script[Len(runs[r].returned) + 1]
     IN  \E o \in Outcomes(runs[r].executor, c) :
           runs' = [runs EXCEPT ![r].executor = o[1], ![r].returned = Append(@, o[2])]
  /\ UNCHANGED <<script, factory, walletVars, testMode, liveVars, pipeVars, replayVars>>

RunsNext == \E r \in Runs : MakeCall(r)

\* two processes started with the same seed, volatility and balance, about to make
\* the same calls
InitRuns ==
  /\ WalletInit /\ LiveInit /\ NotStarted /\ ReplayInit /\ testMode = TRUE
  /\ script \in UNION {[1..n -> Calls] : n \in 1..MaxScript}
  /\ factory = NewFactory
  /\ \E seed \in Seeds :
       runs = [r \in Runs |->
                 [executor |-> NewMockExecutor(initialBalance, DefaultVolatility, Seeded(seed)),
                  returned |-> << >>]]

SpecRuns == InitRuns /\ [][RunsNext]_vars

\* the process in test mode, nothing else running
InitFactory == WalletInit /\ LiveInit /\ NotStarted /\ ReplayInit /\ NoRuns /\ testMode = TRUE

\* getExecutor calls that may overlap, and shutdown calls between them
SpecFactory == InitFactory /\ [][FactoryNext]_vars

----------------------------------------------------------------------------
(* Properties *)

\* C1: for every trade id, under every interleaving of deliveries, at most one
\* ExecutionOrder carries that originalTradeId and at most one settlement for that
\* id changes the wallet.
C1_OneOrderPerTradeId ==
  \A id \in 1..MaxTradeIds :
    LET orders == {o \in DOMAIN executionOrders : executionOrders[o].originalTradeId = id}
        settled == {i \in Procs : proc[i].trade.id = id /\ proc[i].executedPrice > 0}
    IN  Cardinality(orders) <= 1 /\ Cardinality(settled) <= 1

\* C2: the persisted status of an ExecutionOrder only moves from PENDING to EXECUTED,
\* FAILED or REJECTED; once it is one of these three it never changes again, whatever
\* a later step of executeOrder does.
C2_TerminalStatusNeverChanges ==
  [][\A o \in DOMAIN executionOrders :
       /\ o \in DOMAIN executionOrders'
       /\ executionOrders'[o].status # executionOrders[o].status
            => /\ executionOrders[o].status = "PENDING"
               /\ executionOrders'[o].status \in {"EXECUTED", "FAILED", "REJECTED"}]_vars

\* C3: in every reachable state the wallet's cash is >= 0 and every wallet position's
\* quantity is >= 0, and every position stored by PositionManager has quantity >= 0.
C3_NonNegative ==
  /\ cashBalance >= 0
  /\ \A key \in DOMAIN positions : positions[key].quantity >= 0
  /\ \A key \in DOMAIN pmPositions : pmPositions[key].quantity >= 0

\* a refused wallet call and a successful one have happened, the cash is used up and
\* PositionManager stores a position
C3_Witness ==
  /\ walletCall.op = "buy" /\ ~walletCall.ok
  /\ cashBalance = 0
  /\ tradeHistory # << >>
  /\ pmPositions # << >>

\* C4: in test mode every call of LiveExecutor.executeOrder raises an error before the
\* settlement step and mutates nothing: no call returns an ExecutionResult.
C4_ExecuteOrderRaisesInTestMode ==
  testMode =>
    /\ liveSettlements = 0
    /\ liveCall.op = "executeOrder" =>
         /\ liveCall.outcome \in {"threw:guard", "threw:mode"}
         /\ hasChecked = liveCall.checkedBefore

\* executeOrder was called in test mode on an existing instance, after the guard had
\* already run once
C4_Witness ==
  /\ testMode
  /\ liveCall.op = "executeOrder"
  /\ liveCall.checkedBefore
  /\ liveCall.outcome = "threw:mode"

\* C5: in test mode no LiveExecutor instance is ever constructed: every
\* `new LiveExecutor()`, not only the first of the process, throws the guard's error.
C5_NoLiveExecutorInTestMode ==
  testMode =>
    /\ \A i \in 1..MaxLive : liveExecutors[i] = "absent"
    /\ liveCall.op = "new" => liveCall.outcome = "threw:guard"

\* C6: a buy with quantity * price > cash, and a sell with no position or with more
\* than the position's quantity, return false and leave cash, positions and the trade
\* history as they were.
C6_RefusedCallChangesNothing ==
  [][LET c == walletCall'
         mustRefuse ==
           \/ c.op = "buy" /\ c.quantity * c.price > cashBalance
           \/ c.op = "sell" /\ (\/ c.key \notin DOMAIN positions
                                \/ c.quantity > positions[c.key].quantity)
     IN  (c.n # walletCall.n /\ mustRefuse)
           => /\ ~c.ok
              /\ UNCHANGED <<cashBalance, positions, tradeHistory>>]_vars

\* a buy was refused by a wallet that has traded before
C6_Witness ==
  /\ walletCall.op = "buy" /\ ~walletCall.ok
  /\ walletCall.quantity * walletCall.price > cashBalance
  /\ tradeHistory # << >>

\* C7: validateOrder runs minimum size, position-size limit, total-exposure limit,
\* slippage, affordability in this order and stops at the first failure: the reason
\* of a rejected order is that of the earliest violated enabled check, and an order is
\* passed on as valid only if no enabled check is violated.
C7_ReasonOfEarliestViolatedCheck ==
  \A i \in Procs :
    LET order == OrderOf(i)
        firstViolated ==
          IF MinSizeFails(order, riskCfg) THEN "minsize"
          ELSE IF /\ riskCfg.enableExposureLimits
                  /\ PositionSizeFails(order, riskCfg, GetPositionSize(pmPositions, order.key))
               THEN "position"
          ELSE IF /\ riskCfg.enableExposureLimits
                  /\ TotalExposureFails(order, riskCfg, GetTotalExposure(pmPositions))
               THEN "exposure"
          ELSE IF /\ riskCfg.enableSlippageProtection
                  /\ order.key \in DOMAIN prices
                  /\ SlippageFails(order, riskCfg, prices[order.key])
               THEN "slippage"
          ELSE IF CanExecuteRefuses(order, TheWallet) THEN "afford"
          ELSE "none"
    IN  /\ proc[i].pc = "reject" => proc[i].reason = firstViolated
        /\ proc[i].pc = "execute" => firstViolated = "none"

\* an order that violates two rules at once was rejected
C7_Witness ==
  \E i \in Procs :
    /\ proc[i].pc = "reject"
    /\ proc[i].reason = "position"
    /\ CanExecuteRefuses(OrderOf(i), TheWallet)

\* C8: a failure while feeding or processing one trade never keeps the remaining
\* trades from being fed: when replay ends, every trade of the selected range has
\* been fed.
C8_ReplayFeedsWholeRange ==
  replay.pc \in {"returned", "threw"} => Len(fed) = Len(replay.tradesToReplay)

\* C9: replay hands the trades of [startIndex, endIndex) to the pipeline in loaded
\* order, each exactly once, and none of them is left unprocessed except by the
\* idempotency gate.
C9_ReplayInOrderNothingSkipped ==
  /\ fed = SubSeq(replay.tradesToReplay, 1, Len(fed))
  /\ replay.pc = "returned" => fed = replay.tradesToReplay
  /\ replay.pc = "returned" => \A i \in Procs : proc[i].outcome \notin {"feedThrew", "untracked"}

\* C10: the affordability check of an order and its settlement are one critical
\* section: two BUYs whose combined cost exceeds the cash are never both past the
\* affordability check with their settlements still to come.
C10_AffordabilityAndSettlementAtomic ==
  \A i, j \in Procs :
    (/\ i # j
     /\ proc[i].pc = "execute" /\ proc[i].trade.side = "BUY"
     /\ proc[j].pc = "execute" /\ proc[j].trade.side = "BUY")
      => proc[i].requestedSize * proc[i].trade.price
           + proc[j].requestedSize * proc[j].trade.price <= cashBalance

\* C11: once every started processTrade call has finished, PositionManager and the
\* wallet record the same quantity and the same average price for every key, a
\* missing record counting as quantity 0, also for trades processed concurrently.
C11_LedgersAgreeWhenQuiet ==
  (\A i \in Procs : proc[i].pc \in {"idle", "done"})
    => \A key \in Keys :
         LET walletQty == IF key \in DOMAIN positions THEN positions[key].quantity ELSE 0
         IN  /\ GetPositionSize(pmPositions, key) = walletQty
             /\ walletQty > 0 => pmPositions[key].averagePrice = positions[key].averagePrice

\* C12: after any sequence of buy and sell calls the cash is the initial balance minus
\* the cost of the successful buys plus the proceeds of the successful sells, and the
\* trade history holds exactly the successful calls in call order.
C12_CashFollowsHistory ==
  [][LET RECURSIVE CashFlow(_)
         CashFlow(h) ==
           IF h = << >> THEN 0
           ELSE LET e == h[Len(h)]
                    amount == e.quantity * e.price
                IN  CashFlow(SubSeq(h, 1, Len(h) - 1))
                      + (IF e.side = "BUY" THEN 0 - amount ELSE amount)
         c == walletCall'
     IN  /\ cashBalance' = initialBalance' + CashFlow(tradeHistory')
         /\ c.n # walletCall.n =>
              tradeHistory' =
                IF c.ok
                THEN Append(tradeHistory,
                            HistoryEntry(IF c.op = "buy" THEN "BUY" ELSE "SELL",
                                         c.key, c.quantity, c.price))
                ELSE tradeHistory]_vars

\* a buy and a sell went through and a third call was refused
C12_Witness ==
  /\ Len(tradeHistory) = 2
  /\ tradeHistory[1].side = "BUY" /\ tradeHistory[2].side = "SELL"
  /\ cashBalance # initialBalance
  /\ ~walletCall.ok

\* C13: a successful BUY of qty2 at price2 onto a position (qty1, avg1) leaves
\* (qty1 + qty2, (qty1 * avg1 + qty2 * price2) / (qty1 + qty2)), a BUY without a
\* position leaves (qty2, price2), and a SELL never changes the average price, in the
\* wallet and in PositionManager alike.
C13_WeightedAverage ==
  [][LET c == walletCall'
         \* does new follow from old by a BUY of quantity at price?
         Merged(old, new, quantity, price) ==
           /\ new.quantity = old.quantity + quantity
           /\ IF new.quantity = 0
              THEN IsNaN(new.averagePrice)
              ELSE RMul(new.averagePrice, RInt(new.quantity))
                     = RAdd(RMul(RInt(old.quantity), old.averagePrice), RInt(quantity * price))
         Opened(new, quantity, price) ==
           new.quantity = quantity /\ new.averagePrice = RInt(price)
     IN  /\ (c.n # walletCall.n /\ c.ok /\ c.op = "buy") =>
              IF c.key \in DOMAIN positions
              THEN Merged(positions[c.key], positions'[c.key], c.quantity, c.price)
              ELSE Opened(positions'[c.key], c.quantity, c.price)
         /\ (c.n # walletCall.n /\ c.op = "sell" /\ c.key \in DOMAIN positions') =>
              positions'[c.key].averagePrice = positions[c.key].averagePrice
         /\ \A i \in Procs :
              (proc[i].pc = "pmSave" /\ proc'[i].outcome = "executed") =>
                LET key == proc[i].trade.key
                    quantity == proc[i].requestedSize
                    price == proc[i].executedPrice
                IN  IF proc[i].trade.side = "SELL"
                    THEN pmPositions'[key].averagePrice = pmPositions[key].averagePrice
                    ELSE IF key \in DOMAIN pmPositions
                         THEN Merged(pmPositions[key], pmPositions'[key], quantity, price)
                         ELSE Opened(pmPositions'[key], quantity, price)]_vars

\* two buys at different prices were merged in PositionManager and in the wallet
C13_Witness ==
  /\ "m1:o1" \in DOMAIN pmPositions /\ "m1:o1" \in DOMAIN positions
  /\ pmPositions["m1:o1"].quantity = 4
  /\ pmPositions["m1:o1"].averagePrice = Rat(601, 2)
  /\ positions["m1:o1"].averagePrice = Rat(601, 2)

\* C14: a successful SELL of qty at price from a position with average avg adds
\* exactly (price - avg) * qty to the position's realizedPnL and takes exactly qty
\* from its quantity, in the wallet and in PositionManager; a BUY leaves realizedPnL
\* as it was.
C14_RealizedPnL ==
  [][LET c == walletCall'
         Sold(old, new, quantity, price) ==
           /\ new.quantity = old.quantity - quantity
           /\ new.realizedPnL =
                RAdd(old.realizedPnL, RMul(RSub(RInt(price), old.averagePrice), RInt(quantity)))
     IN  /\ (c.n # walletCall.n /\ c.ok /\ c.op = "sell") =>
              IF c.key \in DOMAIN positions'
              THEN Sold(positions[c.key], positions'[c.key], c.quantity, c.price)
              ELSE positions[c.key].quantity = c.quantity
         /\ (c.n # walletCall.n /\ c.ok /\ c.op = "buy") =>
              positions'[c.key].realizedPnL =
                IF c.key \in DOMAIN positions THEN positions[c.key].realizedPnL ELSE RInt(0)
         /\ \A i \in Procs :
              (proc[i].pc = "pmSave" /\ proc'[i].outcome = "executed") =>
                LET key == proc[i].trade.key
                IN  IF proc[i].trade.side = "SELL"
                    THEN Sold(pmPositions[key], pmPositions'[key],
                              proc[i].requestedSize, proc[i].executedPrice)
                    ELSE pmPositions'[key].realizedPnL =
                           IF key \in DOMAIN pmPositions THEN pmPositions[key].realizedPnL
                           ELSE RInt(0)]_vars

\* a sell away from the average price left realized PnL in the wallet's position and
\* in PositionManager's
C14_Witness ==
  /\ "m1:o1" \in DOMAIN positions /\ "m1:o1" \in DOMAIN pmPositions
  /\ positions["m1:o1"].realizedPnL # RInt(0)
  /\ pmPositions["m1:o1"].realizedPnL # RInt(0)
  /\ walletCall.op = "sell" /\ walletCall.ok

C16_PositionSizeLimit ==
  [][\A i \in Procs :
       (/\ proc[i].pc = "validate"
        /\ EnabledChecks(riskCfg)[proc[i].chk] = "position"
        /\ proc'[i] # proc[i])
         => LET order == OrderOf(i)
                held == IF order.key \in DOMAIN pmPositions
                        THEN pmPositions[order.key].quantity ELSE 0
                above == (held + order.requestedSize) * order.requestedPrice
                           > riskCfg.maxPositionSizeUSD
                turnedAway == proc'[i].pc = "reject" /\ proc'[i].reason = "position"
                passed == proc'[i].pc = "validate" /\ proc'[i].chk = proc[i].chk + 1
            IN  /\ order.side = "SELL" => passed
                /\ (order.side = "BUY" /\ mongoConnected)
                     => /\ turnedAway <=> above
                        /\ passed <=> ~above]_vars

\* a BUY that brings the position exactly to the cap has passed the position-size check
C16_Witness ==
  \E i \in Procs :
    /\ proc[i].pc = "validate"
    /\ riskCfg.enableExposureLimits
    /\ EnabledChecks(riskCfg)[proc[i].chk] = "exposure"
    /\ proc[i].trade.side = "BUY"
    /\ proc[i].trade.key \in DOMAIN pmPositions
    /\ (pmPositions[proc[i].trade.key].quantity + proc[i].requestedSize) * proc[i].trade.price
         = riskCfg.maxPositionSizeUSD

\* C17: the total-exposure check of validateOrder never turns a SELL away, and it
\* turns a BUY away, with the exposure reason, exactly when the sum over all of
\* PositionManager's positions of quantity * currentPrice, plus requestedSize *
\* requestedPrice, is above maxTotalExposureUSD. (PositionManager's database is
\* connected when a BUY is judged; a read that throws judges nothing.)
C17_TotalExposureLimit ==
  [][\A i \in Procs :
       (/\ proc[i].pc = "validate"
        /\ EnabledChecks(riskCfg)[proc[i].chk] = "exposure"
        /\ proc'[i] # proc[i])
         => LET RECURSIVE Exposure(_)
                Exposure(ks) ==
                  IF ks = {} THEN 0
                  ELSE LET k == CHOOSE x \in ks : TRUE
                       IN  pmPositions[k].quantity * pmPositions[k].currentPrice
                             + Exposure(ks \ {k})
                order == OrderOf(i)
                above == Exposure(DOMAIN pmPositions)
                           + order.requestedSize * order.requestedPrice
                           > riskCfg.maxTotalExposureUSD
                turnedAway == proc'[i].pc = "reject" /\ proc'[i].reason = "exposure"
                passed == \/ proc'[i].pc = "validate" /\ proc'[i].chk = proc[i].chk + 1
                          \/ proc'[i].pc = "execute"
            IN  /\ order.side = "SELL" => passed
                /\ (order.side = "BUY" /\ mongoConnected)
                     => /\ turnedAway <=> above
                        /\ passed <=> ~above]_vars

\* a BUY was turned away for exposure while positions in two markets were held,
\* although its own position was within the position cap
C17_Witness ==
  \E i \in Procs :
    /\ proc[i].pc = "reject"
    /\ proc[i].reason = "exposure"
    /\ \E k \in DOMAIN pmPositions : k # proc[i].trade.key /\ pmPositions[k].quantity > 0

\* C18: on the initialized MockExecutor, canExecute lets a BUY through exactly when
\* requestedSize * requestedPrice is at most the wallet's cash (a cost equal to the
\* cash passes), and a SELL exactly when the wallet holds a position for the key
\* of at least requestedSize; whatever the answer, the wallet's cash, positions
\* and history are as they were.
C18_CanExecute ==
  [][\A i \in Procs :
       (/\ proc[i].pc = "validate"
        /\ EnabledChecks(riskCfg)[proc[i].chk] = "afford"
        /\ proc'[i] # proc[i])
         => LET order == OrderOf(i)
                allowed == IF order.side = "BUY"
                           THEN order.requestedSize * order.requestedPrice <= cashBalance
                           ELSE /\ order.key \in DOMAIN positions
                                /\ positions[order.key].quantity >= order.requestedSize
            IN  /\ allowed => proc'[i].pc = "execute"
                /\ ~allowed => proc'[i].pc = "reject" /\ proc'[i].reason = "afford"
                /\ cashBalance' = cashBalance
                /\ positions' = positions
                /\ tradeHistory' = tradeHistory]_vars

\* a BUY whose cost is exactly the cash was let through, after the wallet had
\* been used
C18_Witness ==
  \E i \in Procs :
    /\ proc[i].pc = "execute"
    /\ proc[i].trade.side = "BUY"
    /\ proc[i].requestedSize * proc[i].trade.price = cashBalance
    /\ Len(tradeHistory) > 0

\* C19: whatever the input, the size either sizing function returns is 0, or its
\* value size * currentPrice lies between minTradeSizeUSD and maxPositionSizeUSD,
\* both included; and a size of 0 is returned only when the value asked for, cut
\* down to the cap, is below minTradeSizeUSD, or (capital-proportional sizing) the
\* bot has no capital.
C19_SizeIsZeroOrWithinLimits ==
  sizing.fn # "none"
    => LET r == sizing.result
           value == FMul(r, RInt(sizing.currentPrice))
           byCapital == sizing.fn = "calculateCapitalProportionalSize"
           \* the value of the size asked for, as a fraction vn / vd of mills
           vn == IF byCapital
                 THEN sizing.botCapital * sizing.tradeSize * sizing.tradePrice
                 ELSE sizing.tradeSize * sizing.multiplier.n * sizing.currentPrice
           vd == IF byCapital THEN sizing.traderCapital ELSE sizing.multiplier.d
           cutBelowFloor == \/ vn < riskCfg.minTradeSizeUSD * vd
                            \/ riskCfg.maxPositionSizeUSD < riskCfg.minTradeSizeUSD
           noCapital == byCapital /\ sizing.botCapital <= 0
       IN  /\ ~IsNaN(r)
           /\ \/ r.n = 0
              \/ /\ ~RLess(value, RInt(riskCfg.minTradeSizeUSD))
                 /\ ~RLess(RInt(riskCfg.maxPositionSizeUSD), value)
           /\ r.n = 0 => (cutBelowFloor \/ noCapital)

\* C20: when processTrade sizes a trade of a tracked trader for whom a nonzero
\* capital estimate is configured, the size is the one capital-proportional sizing
\* gives for the bot's capital; the multiplier sizes the trade only when no nonzero
\* estimate is configured.
C20_CapitalEstimateTakesPrecedence ==
  [][\A i \in Procs :
       (proc[i].pc = "save" /\ proc'[i] # proc[i])
         => LET t == proc[i].trade
                capital == TraderCapitalAmounts[t.trader]
                size == IF capital # 0
                        THEN CalculateCapitalProportionalSize(t.size, t.price, capital, t.price,
                                                              GetAvailableCapital(TheWallet),
                                                              riskCfg)
                        ELSE CalculateSafePositionSize(t.size, RInt(TrackedTraders[t.trader]),
                                                       t.price, riskCfg)
            IN  IF size.n = 0
                THEN proc'[i].outcome = "tooSmall"
                ELSE /\ proc'[i].outcome # "tooSmall"
                     /\ proc'[i].pc = "validate" => RInt(proc'[i].requestedSize) = size]_vars

\* C21 as stated: when capital-proportional sizing neither cuts the size down to
\* the cap nor returns 0, the value size * currentPrice of the size it returns
\* equals botCapital * (tradeSize * tradePrice) / traderCapital, botCapital being
\* the wallet's cash plus the value of its positions.
C21_ValueEqualsShareOfCapital ==
  [][(sizing' # sizing /\ sizing'.fn = "calculateCapitalProportionalSize")
       => LET c == sizing'
              r == c.result
              cap == FDiv(RInt(riskCfg.maxPositionSizeUSD), RInt(c.currentPrice))
              RECURSIVE Value(_)
              Value(ks) == IF ks = {} THEN 0
                           ELSE LET k == CHOOSE x \in ks : TRUE
                                IN  positions[k].quantity * positions[k].currentPrice
                                      + Value(ks \ {k})
              botCapital == cashBalance + Value(DOMAIN positions)
              share == Rat(botCapital * c.tradeSize * c.tradePrice, c.traderCapital)
          IN  (r.n # 0 /\ r # cap) => FMul(r, RInt(c.currentPrice)) = share]_vars

\* C21 amended: ... the value size * currentPrice equals
\* botCapital * (tradeSize * tradePrice) / traderCapital up to the rounding of the
\* five floating-point operations that produce it: it differs from that share by
\* at most 6 units in the last place of the significand.
C21_ValueIsShareOfCapitalWithinRounding ==
  [][(sizing' # sizing /\ sizing'.fn = "calculateCapitalProportionalSize")
       => LET c == sizing'
              r == c.result
              cap == FDiv(RInt(riskCfg.maxPositionSizeUSD), RInt(c.currentPrice))
              RECURSIVE Value(_)
              Value(ks) == IF ks = {} THEN 0
                           ELSE LET k == CHOOSE x \in ks : TRUE
                                IN  positions[k].quantity * positions[k].currentPrice
                                      + Value(ks \ {k})
              botCapital == cashBalance + Value(DOMAIN positions)
              share == Rat(botCapital * c.tradeSize * c.tradePrice, c.traderCapital)
              diff == RSub(FMul(r, RInt(c.currentPrice)), share)
              off == [n |-> Abs(diff.n), d |-> diff.d]
          IN  (r.n # 0 /\ r # cap) => ~RLess(Rat(6 * share.n, share.d * Limit), off)]_vars

\* a size neither cut down nor 0 was returned while the wallet held a position, and
\* its value is not exactly the share of the capital
C21_Witness ==
  /\ sizing.fn = "calculateCapitalProportionalSize"
  /\ sizing.result.n # 0
  /\ sizing.result # FDiv(RInt(riskCfg.maxPositionSizeUSD), RInt(sizing.currentPrice))
  /\ DOMAIN positions # {}
  /\ sizing.botCapital > cashBalance
  /\ FMul(sizing.result, RInt(sizing.currentPrice))
       # Rat(sizing.botCapital * sizing.tradeSize * sizing.tradePrice, sizing.traderCapital)

\* C22: a processTrade call whose sizing returns 0 ends there: it saves no
\* ExecutionOrder and changes neither the wallet nor PositionManager's positions;
\* and every ExecutionOrder in the database belongs to a trade whose computed size
\* is greater than 0 and carries that size as requestedSize.
C22_NoOrderForSizeZero ==
  [][/\ \A i \in Procs :
          (proc[i].pc = "save" /\ proc'[i] # proc[i])
            => LET t == proc[i].trade
                   size == CalculateSafePositionSize(t.size, RInt(TrackedTraders[t.trader]),
                                                     t.price, riskCfg)
               IN  size.n = 0
                     => /\ proc'[i].pc = "done"
                        /\ executionOrders' = executionOrders
                        /\ cashBalance' = cashBalance
                        /\ positions' = positions
                        /\ tradeHistory' = tradeHistory
                        /\ pmPositions' = pmPositions
     /\ \A o \in DOMAIN executionOrders' :
          LET order == executionOrders'[o]
              t == tradeLog[order.originalTradeId]
              size == CalculateSafePositionSize(t.size, RInt(TrackedTraders[t.trader]),
                                                t.price, riskCfg)
          IN  size.n > 0 /\ RInt(order.requestedSize) = size]_vars

\* one trade was skipped for its size and left no order, another one was settled
C22_Witness ==
  /\ \E i \in Procs :
       /\ proc[i].outcome = "tooSmall"
       /\ \A o \in DOMAIN executionOrders :
            executionOrders[o].originalTradeId # proc[i].trade.id
  /\ \E o \in DOMAIN executionOrders : executionOrders[o].status = "EXECUTED"

\* C23: two PriceSimulator instances built with the same seed and volatility and driven
\* by the same sequence of getPrice, simulatePriceMovement, simulateMarketDynamics,
\* setPrice and loadHistoricalPrices calls return identical prices at every step and
\* hold identical prices, histories and generators after equally many calls; every
\* generator state is a term of state' = (state * 1664525 + 1013904223) mod 2^32
\* started at the seed.
C23_SameSeedSamePrices ==
  LET sim(r) == runs[r].executor.priceSimulator
      made(r) == Len(runs[r].returned)
      Terms == {<<0, 42>>, <<16537, 45441>>, <<5775, 23788>>, <<37832, 45915>>,
                <<14585, 20734>>, <<24619, 17477>>, <<1681, 59616>>, <<29313, 1727>>,
                <<7763, 25874>>, <<57266, 16713>>, <<65184, 23060>>,
                <<1883, 52501>>, <<14043, 47984>>, <<57398, 6159>>, <<34363, 9762>>,
                <<22515, 28441>>, <<35712, 36260>>, <<24425, 31923>>, <<18932, 39542>>,
                <<35051, 53085>>, <<25884, 35096>>, <<8409, 31127>>}
  IN  /\ \A a, b \in Runs :
           /\ \A k \in 1..Min(made(a), made(b)) :
                script[k].op # "executeOrder" => runs[a].returned[k] = runs[b].returned[k]
           /\ made(a) = made(b) => sim(a) = sim(b)
      /\ \A r \in Runs : <<sim(r).random.hi, sim(r).random.lo>> \in Terms

\* both simulators seeded 42 drew 0.2523... and 0.0881..., returned 0.400 from getPrice
\* and 0.383 from simulatePriceMovement, and a second process is only one call in
C23_Witness ==
  /\ Len(script) >= 2
  /\ script[1].op = "getPrice" /\ script[2].op = "simulatePriceMovement"
  /\ Len(runs[1].returned) = 2 /\ Len(runs[2].returned) = 1
  /\ runs[1].returned[1].price = 400 /\ runs[2].returned[1].price = 400
  /\ runs[1].returned[2].price = 383
  /\ runs[1].executor.priceSimulator.random = [seeded |-> TRUE, hi |-> 5775, lo |-> 23788]
  /\ runs[2].executor.priceSimulator.random = [seeded |-> TRUE, hi |-> 16537, lo |-> 45441]

\* C24: with a fixed deterministic seed, two runs that feed the same orders from the
\* same initial balance end with identical results (success, executed size, executed
\* price), identical cash and identical positions.
C24_SameSeedSameResults ==
  \A a, b \in Runs :
    (Len(runs[a].returned) = Len(script) /\ Len(runs[b].returned) = Len(script))
      => /\ runs[a].returned = runs[b].returned
         /\ runs[a].executor.wallet.cashBalance = runs[b].executor.wallet.cashBalance
         /\ runs[a].executor.wallet.positions = runs[b].executor.wallet.positions

\* C25: every price PriceSimulator stores, records in its history or returns from
\* getPrice or simulatePriceMovement lies within 0.01 and 0.99, after any sequence of
\* setPrice, simulatePriceMovement, simulateMarketDynamics and loadHistoricalPrices
\* calls with arbitrary input prices.
C25_PricesWithinBounds ==
  LET InBounds(price) == MinPrice <= price /\ price <= MaxPrice
  IN  \A r \in Runs :
        LET sim == runs[r].executor.priceSimulator
        IN  /\ \A key \in DOMAIN sim.prices : InBounds(sim.prices[key])
            /\ \A key \in DOMAIN sim.priceHistory :
                 \A k \in 1..Len(sim.priceHistory[key]) : InBounds(sim.priceHistory[key][k])
            /\ \A k \in 1..Len(runs[r].returned) :
                 script[k].op \in {"getPrice", "simulatePriceMovement"}
                   => InBounds(runs[r].returned[k].price)

\* C26: a BUY trade whose sized cost exceeds the wallet's available cash ends with
\* its ExecutionOrder in status FAILED with an insufficient-balance reason, and cash
\* is unchanged.
C26_UnaffordableBuyFails ==
  [][\A i \in Procs :
       (/\ proc[i].pc # "done" /\ proc'[i].pc = "done"
        /\ i \in DOMAIN executionOrders'
        /\ proc[i].trade.side = "BUY"
        /\ proc[i].executedPrice = 0
        /\ proc[i].requestedSize * proc[i].trade.price > cashBalance)
         => /\ executionOrders'[i].status = "FAILED"
            /\ executionOrders'[i].rejectionReason = "insufficient"
            /\ cashBalance' = cashBalance]_vars

\* C26 (amended): a BUY order whose cost exceeds the wallet's cash when validateOrder
\* checks affordability is refused there with the insufficient-balance reason; the
\* update processTrade then makes marks the order REJECTED, never FAILED or EXECUTED;
\* settlement is not invoked for it and cash is unchanged.
C26_UnaffordableBuyRejected ==
  [][\A i \in Procs :
       /\ (/\ proc[i].pc = "validate"
           /\ EnabledChecks(riskCfg)[proc[i].chk] = "afford"
           /\ proc[i].trade.side = "BUY"
           /\ proc[i].requestedSize * proc[i].trade.price > cashBalance
           /\ proc'[i] # proc[i])
            => /\ proc'[i].pc = "reject" /\ proc'[i].reason = "afford"
               /\ cashBalance' = cashBalance /\ positions' = positions
       /\ (proc[i].reason = "afford" /\ proc'[i] # proc[i])
            => /\ proc[i].pc = "reject" /\ proc'[i].pc = "done"
               /\ proc'[i].executedPrice = 0
               /\ cashBalance' = cashBalance /\ positions' = positions
               /\ connected => /\ executionOrders'[i].status = "REJECTED"
                               /\ executionOrders'[i].rejectionReason = "afford"
       /\ (proc[i].reason = "afford" /\ i \in DOMAIN executionOrders)
            => /\ executionOrders[i].status \in {"PENDING", "REJECTED"}
               /\ executionOrders'[i].status \in {"PENDING", "REJECTED"}]_vars

\* after an earlier settlement, a BUY that costs more than the cash left was refused
\* by the affordability check and its order is REJECTED for that reason
C26_Witness ==
  \E i \in Procs :
    /\ proc[i].pc = "done" /\ proc[i].outcome = "rejected"
    /\ proc[i].trade.side = "BUY"
    /\ proc[i].requestedSize * proc[i].trade.price > cashBalance
    /\ i \in DOMAIN executionOrders
    /\ executionOrders[i].status = "REJECTED"
    /\ executionOrders[i].rejectionReason = "afford"
    /\ Len(tradeHistory) > 0

\* C27: the replay driver offers a clean stop: once a stop has been requested during
\* a replay, no further trade is fed (the trade in flight is finished and replay ends
\* with isRunning() false).
C27_NoTradeFedAfterStop ==
  [][~monitoring => fed' = fed]_vars

\* C28: PositionManager.updatePosition for a SELL with no existing position, or with
\* a quantity greater than the recorded one, raises an error and saves nothing: the
\* stored positions are unchanged (no quantity is clamped to 0), then and while the
\* error is handled.
C28_OversellRaisesAndSavesNothing ==
  [][\A i \in Procs :
       /\ (/\ proc[i].pc = "pmRead"
           /\ mongoConnected
           /\ proc[i].trade.side = "SELL"
           /\ \/ proc[i].trade.key \notin DOMAIN pmPositions
              \/ pmPositions[proc[i].trade.key].quantity < proc[i].requestedSize
           /\ proc'[i] # proc[i])
            => proc'[i].pc = "catchFail" /\ pmPositions' = pmPositions
       /\ (proc[i].pc = "catchFail" /\ proc'[i] # proc[i]) => pmPositions' = pmPositions]_vars

\* a SELL of two shares settled on the wallet met a PositionManager holding one: the
\* update raised, the order was marked FAILED and the stored position still holds one
C28_Witness ==
  \E i \in Procs :
    /\ proc[i].pc = "done" /\ proc[i].outcome = "failedAfterError"
    /\ proc[i].trade.side = "SELL"
    /\ proc[i].executedPrice > 0
    /\ proc[i].trade.key \in DOMAIN pmPositions
    /\ pmPositions[proc[i].trade.key].quantity = 1
    /\ proc[i].requestedSize = 2

\* C29: every ExecutionOrder that processTrade persisted as PENDING has reached
\* EXECUTED, FAILED or REJECTED by the time that processTrade call has returned, also
\* when a risk check, a position lookup or a persistence call raised an error.
C29_NoOrderLeftPending ==
  \A i \in Procs :
    (proc[i].pc = "done" /\ i \in DOMAIN executionOrders)
      => executionOrders[i].status \in {"EXECUTED", "FAILED", "REJECTED"}

\* C30: for every processed trade the pipeline steps occur in this order: order
\* persisted as PENDING, then validation, then (only if valid) executor settlement,
\* then status EXECUTED persisted, then PositionManager.updatePosition; settlement is
\* never invoked for an order that failed validation, and updatePosition is invoked
\* only for orders whose settlement succeeded, exactly once per such order.
C30_StepsInOrder ==
  [][\A i \in Procs :
       LET p == proc[i]
           q == proc'[i]
       IN  q # p =>
             /\ (q.pc = "validate" /\ p.pc # "validate")
                  => /\ p.pc = "save"
                     /\ i \in DOMAIN executionOrders'
                     /\ executionOrders'[i].status = "PENDING"
             /\ q.pc = "execute"
                  => /\ p.pc = "validate" /\ p.reason = "none"
                     /\ p.chk = Len(EnabledChecks(riskCfg))
             /\ q.pc = "reject" => p.pc = "validate"
             /\ p.pc = "reject" => q.pc = "done" /\ cashBalance' = cashBalance
             /\ p.pc = "execute" => q.pc \in {"markExecuted", "markFailed"}
             /\ q.pc = "markExecuted" => p.pc = "execute" /\ walletCall'.ok
             /\ q.pc = "pmRead"
                  => /\ p.pc = "markExecuted"
                     /\ executionOrders'[i].status = "EXECUTED"
             /\ p.pc = "markExecuted" => q.pc = "pmRead"
             /\ p.pc = "pmRead" => q.pc \in {"pmSave", "catchFail"}
             /\ p.pc = "pmSave" => q.pc \in {"done", "catchFail"}]_vars

\* C31: processing a trade that is skipped (duplicate id or size 0) or whose order
\* ends REJECTED or FAILED leaves the wallet's cash and positions and the
\* PositionManager's positions as they were: with one trade processed at a time,
\* every change of the wallet belongs to an order that ended EXECUTED.
C31_OnlyExecutedOrdersChangeTheLedgers ==
  (\A i \in Procs : proc[i].pc \in {"idle", "done"})
    => /\ \A i \in Procs :
            (i \notin DOMAIN executionOrders
               \/ executionOrders[i].status \in {"REJECTED", "FAILED"})
              => proc[i].executedPrice = 0
       /\ Len(tradeHistory)
            = Cardinality({i \in DOMAIN executionOrders :
                             executionOrders[i].status = "EXECUTED"})

C33_ExecutedWithinTolerance ==
  riskCfg.enableSlippageProtection
    => \A i \in DOMAIN executionOrders :
         LET o == executionOrders[i]
         IN  o.status = "EXECUTED"
               => Abs(o.executedPrice - o.requestedPrice) * riskCfg.tolDen
                    <= riskCfg.tolNum * o.requestedPrice

\* C34: with exposure limits enabled, no BUY order is settled (and then EXECUTED) in
\* a state where (PositionManager quantity for its key + requestedSize) *
\* requestedPrice exceeds maxPositionSizeUSD, or the total exposure plus the order
\* value exceeds maxTotalExposureUSD, whatever the interleaving of the trades
\* processed concurrently.
C34_LimitsHoldAtSettlement ==
  [][\A i \in Procs :
       (/\ riskCfg.enableExposureLimits
        /\ proc[i].pc = "execute" /\ proc'[i].pc = "markExecuted"
        /\ proc[i].trade.side = "BUY")
         => LET order == OrderOf(i)
                value == order.requestedSize * order.requestedPrice
            IN  /\ (GetPositionSize(pmPositions, order.key) + order.requestedSize)
                     * order.requestedPrice <= riskCfg.maxPositionSizeUSD
                /\ GetTotalExposure(pmPositions) + value <= riskCfg.maxTotalExposureUSD]_vars

\* C35: every position that PositionManager.updatePosition or updatePositionPrice saves
\* has unrealizedPnL = (currentPrice - averagePrice) * quantity, its currentPrice being
\* the price of that update (the execution price of the order, or the price handed to
\* updatePositionPrice, which changes nothing else); a position sold down to quantity 0
\* has unrealizedPnL 0.
C35_UnrealizedPnLOfSavedPosition ==
  [][\A key \in DOMAIN pmPositions' :
       (key \notin DOMAIN pmPositions \/ pmPositions'[key] # pmPositions[key]) =>
         LET p == pmPositions'[key]
             savers == {i \in Procs : proc[i].pc = "pmSave" /\ proc'[i] # proc[i]}
         IN  /\ p.unrealizedPnL = RMul(RSub(RInt(p.currentPrice), p.averagePrice), RInt(p.quantity))
             /\ p.quantity = 0 => p.unrealizedPnL = RInt(0)
             /\ \A i \in savers : p.currentPrice = proc[i].executedPrice
             /\ savers = {} =>
                   /\ p.currentPrice \in DrawnPrices
                   /\ p.quantity = pmPositions[key].quantity
                   /\ p.averagePrice = pmPositions[key].averagePrice
                   /\ p.realizedPnL = pmPositions[key].realizedPnL]_vars

\* a position bought at 0.30 and sold down to nothing at 0.299 was re-priced at 0.307:
\* its unrealized PnL is 0, its realized PnL -0.002
C35_Witness ==
  /\ "m1:o1" \in DOMAIN pmPositions
  /\ pmPositions["m1:o1"].quantity = 0
  /\ pmPositions["m1:o1"].averagePrice = RInt(300)
  /\ pmPositions["m1:o1"].currentPrice = 307
  /\ pmPositions["m1:o1"].realizedPnL = RInt(-2)
  /\ pmPositions["m1:o1"].unrealizedPnL = RInt(0)

\* C36: MockWalletEngine.getTotalPnL().realized is the sum of (price - averagePrice at
\* the time) * quantity over the successful sells so far: it starts at 0, every
\* successful sell adds its own term to it, and no other call changes it, also when
\* the sell closes the position.
C36_RealizedPnLNeverDropped ==
  [][LET c == walletCall'
     IN  c.n # walletCall.n =>
           GetTotalPnL(positions') =
             IF c.ok /\ c.op = "sell"
             THEN RAdd(GetTotalPnL(positions),
                       RMul(RSub(RInt(c.price), positions[c.key].averagePrice), RInt(c.quantity)))
             ELSE GetTotalPnL(positions)]_vars

\* C37: MockWalletEngine holds a position record for a key exactly when the quantity
\* held of it is greater than 0: every record has a positive quantity, a sell that
\* brings the quantity to 0 removes the record and a partial sell keeps it.
C37_RecordIffQuantityPositive ==
  [][LET c == walletCall'
     IN  /\ \A key \in DOMAIN positions' : positions'[key].quantity > 0
         /\ (c.n # walletCall.n /\ c.ok /\ c.op = "sell") =>
               (c.key \in DOMAIN positions' <=> positions[c.key].quantity > c.quantity)]_vars

\* C38: between two ExecutorFactory.shutdown calls every getExecutor call, overlapping
\* calls included, returns the same executor, the executor a caller receives has
\* completed initialize(), and at most one MockExecutor is created.
C38_OneInitializedExecutor ==
  LET returned == {c \in Callers : factory.calls[c].pc = "returned"}
  IN  /\ \A c, d \in returned : factory.calls[c].got = factory.calls[d].got
      /\ \A c \in returned : factory.calls[c].gotInitialized
      /\ factory.sinceShutdown <= 1

\* C39: at most one TradeReplayRunner.replay is active at a time: a replay call made
\* while another is in progress throws without feeding a trade and without touching
\* the running flag, a replay call with no trades loaded throws without setting the
\* flag, and isRunning() is false once the replay has ended, by returning or by
\* throwing.
C39_OneReplayAtATime ==
  [][/\ replay'.again # "started"
     /\ replay'.again # replay.again =>
           /\ isReplaying /\ isReplaying'
           /\ fed' = fed /\ proc' = proc
     /\ (replay.pc = "idle" /\ replay'.pc # "idle" /\ Len(loaded) = 0) =>
           replay'.pc = "threw" /\ ~isReplaying'
     /\ (replay.pc = "idle" /\ replay'.pc = "loop") => isReplaying'
     /\ replay'.pc \in {"loop", "await"} => isReplaying'
     /\ replay'.pc \in {"returned", "threw"} => ~isReplaying']_vars

\* a second replay call was turned away while the first was inside its loop, and
\* the first has since fed both its trades and returned
C39_Witness ==
  /\ replay.again = "threw"
  /\ replay.pc = "returned"
  /\ Len(fed) = 2
  /\ ~isReplaying

\* C40: the value PriceSimulator.simulatePriceMovement(market, outcome) returns is the
\* price that a getPrice(market, outcome) call made right after it returns.
C40_MovementReturnsStoredPrice ==
  \A r \in Runs :
    \A k \in 1..Len(runs[r].returned) :
      (/\ k > 1
       /\ script[k - 1].op = "simulatePriceMovement"
       /\ script[k].op = "getPrice"
       /\ script[k].key = script[k - 1].key)
        => runs[r].returned[k].price = runs[r].returned[k - 1].price

====
